---- MODULE Spec2Model ----
(***************************************************************************)
(* GameTunnel transport: the server-side session Hub (packet.go, second    *)
(* half), the session views handed to the host (GameTunnelConn), the       *)
(* packet codec and the AEAD record layer, as a state machine.             *)
(*                                                                         *)
(* Datagrams are records of the decoded header fields plus the encoded     *)
(* size; a ciphertext is a record of what it was sealed with.  32-bit      *)
(* packet numbers are pairs of 16-bit limbs, so that uint32 wrap-around is *)
(* computed exactly.  Traffic statistics (BytesSent, PacketsRecv, ...) and *)
(* the advisory RecvPacketNum are not modelled: no handler reads them.     *)
(***************************************************************************)
EXTENDS Integers, Sequences, FiniteSets, TLC

(***************************************************************************)
(* Bounds of the model.                                                    *)
(***************************************************************************)
MaxSessions == 2      \* sessions ever allocated by the Hub
NumCIDs == 2          \* distinct connection IDs on the wire
NumAddrs == 2         \* distinct remote UDP endpoints
MaxPn == 3            \* sends explored from a counter value (see PnWindow)
MaxQueue == 1         \* records explored in one inbound queue
TimeStep == 15        \* seconds by which the clock advances
Horizon == 30         \* seconds explored past the session timeout (idle reap)
MaxClock == 60        \* seconds explored otherwise
MaxEnqueued == 4      \* single enqueue calls explored
MaxBurstSingles == 2  \* single enqueue calls explored around bursts
MaxDropped == 3       \* refused enqueue calls explored
MsStep == 250         \* milliseconds by which the monotonic clock advances
MaxMs == 750          \* milliseconds explored
ClientHorizon == 3    \* seconds of the client's read timeouts explored

(***************************************************************************)
(* Protocol constants.                                                     *)
(***************************************************************************)
PacketType_DATA == 0
PacketType_HANDSHAKE == 1
PacketType_KEEPALIVE == 2
PacketType_CONTROL == 3

FakeQUICVersion == 1
MinPacketSize == 29
AuthTagSize == 16
PacketNumberSize == 4
VersionSize == 4
FlagsSize == 1
PaddingLengthSize == 2
PayloadLengthSize == 2
FlagFormBit == 128
FlagFixedBit == 64
FlagTypeShift == 4
FlagPaddingBit == 8
HandshakePayloadSize == 72
InboundCap == 256
CleanupIntervalSec == 30
DisabledKeepAliveTimeoutSec == 300

SessionState_HANDSHAKE == 0
SessionState_ACTIVE == 1
SessionState_CLOSING == 2
SessionState_CLOSED == 3

CIDs == 1..NumCIDs
Addrs == 1..NumAddrs
SIDs == 1..MaxSessions

(***************************************************************************)
(* Config, after Validate.  The server's pre-shared key is Key.            *)
(***************************************************************************)
Configs ==
  { [MTU |-> 1400, ConnectionIdLength |-> 8, EnablePadding |-> TRUE,
     PaddingMinSize |-> 40, PaddingMaxSize |-> 41, KeepAliveInterval |-> 15, Key |-> 1],
    [MTU |-> 1400, ConnectionIdLength |-> 20, EnablePadding |-> FALSE,
     PaddingMinSize |-> 40, PaddingMaxSize |-> 200, KeepAliveInterval |-> 0, Key |-> 1],
    [MTU |-> 576, ConnectionIdLength |-> 8, EnablePadding |-> TRUE,
     PaddingMinSize |-> 7, PaddingMaxSize |-> 9, KeepAliveInterval |-> 5, Key |-> 1] }

GetMaxPayloadSize(c) ==
  c.MTU - (1 + 4 + c.ConnectionIdLength + 4 + 2) - 16
        - (IF c.EnablePadding THEN 2 ELSE 0)

(***************************************************************************)
(* uint32 as two 16-bit limbs.                                             *)
(***************************************************************************)
Limb == 65536

U32(n) == [hi |-> 0, lo |-> n]

U32Add(p, k) ==
  LET l == p.lo + k.lo
      h == p.hi + k.hi + (IF l >= Limb THEN 1 ELSE 0)
  IN  [hi |-> h % Limb, lo |-> l % Limb]

U32Less(a, b) == a.hi < b.hi \/ (a.hi = b.hi /\ a.lo < b.lo)

U32Max == [hi |-> Limb - 1, lo |-> Limb - 1]

\* atomic.AddUint32(&x, 1): the new value
AddUint32NoIncrement(x) == x

AddUint32(x) == U32Add(x, U32(1))

\* a - b on uint32, wrapping below 0
U32Sub(a, b) ==
  LET borrow == IF a.lo < b.lo THEN 1 ELSE 0
  IN  [hi |-> (a.hi - b.hi - borrow + Limb) % Limb,
       lo |-> (a.lo - b.lo + Limb) % Limb]

(***************************************************************************)
(* Config.Validate and Config.GetMaxPayloadSize on the uint32 fields as    *)
(* they come from the settings.                                            *)
(***************************************************************************)
\* Validate without the check of the MTU
ValidateKeepsMTU(c) ==
  LET c2 == IF c.MaxStreams = U32(0) \/ U32Less(U32(256), c.MaxStreams)
              THEN [c EXCEPT !.MaxStreams = U32(16)] ELSE c
      c3 == IF \/ U32Less(c2.ConnectionIdLength, U32(4))
               \/ U32Less(U32(20), c2.ConnectionIdLength)
              THEN [c2 EXCEPT !.ConnectionIdLength = U32(8)] ELSE c2
      c4 == IF U32Less(c3.PaddingMaxSize, c3.PaddingMinSize)
              THEN [c3 EXCEPT !.PaddingMinSize = U32(40),
                              !.PaddingMaxSize = U32(200)]
              ELSE c3
      c5 == IF c4.HandshakeTimeout = U32(0)
              THEN [c4 EXCEPT !.HandshakeTimeout = U32(5)] ELSE c4
  IN  [err |-> "nil", c |-> c5]

\* c.Validate(): the Config after the call and the error returned
Validate(c) ==
  LET c1 == IF U32Less(c.MTU, U32(576)) \/ U32Less(U32(1500), c.MTU)
              THEN [c EXCEPT !.MTU = U32(1400)] ELSE c
      c2 == IF c1.MaxStreams = U32(0) \/ U32Less(U32(256), c1.MaxStreams)
              THEN [c1 EXCEPT !.MaxStreams = U32(16)] ELSE c1
      c3 == IF \/ U32Less(c2.ConnectionIdLength, U32(4))
               \/ U32Less(U32(20), c2.ConnectionIdLength)
              THEN [c2 EXCEPT !.ConnectionIdLength = U32(8)] ELSE c2
      c4 == IF U32Less(c3.PaddingMaxSize, c3.PaddingMinSize)
              THEN [c3 EXCEPT !.PaddingMinSize = U32(40),
                              !.PaddingMaxSize = U32(200)]
              ELSE c3
      c5 == IF c4.HandshakeTimeout = U32(0)
              THEN [c4 EXCEPT !.HandshakeTimeout = U32(5)] ELSE c4
  IN  [err |-> "nil", c |-> c5]

\* c.GetMaxPayloadSize() in uint32 arithmetic
GetMaxPayloadSizeUint32(c) ==
  LET headerSize == U32Add(U32Add(U32(1 + 4), c.ConnectionIdLength), U32(4 + 2))
      authTagSize == U32(16)
      maxPaddingOverhead == IF c.EnablePadding THEN U32(2) ELSE U32(0)
  IN  U32Sub(U32Sub(U32Sub(c.MTU, headerSize), authTagSize), maxPaddingOverhead)

(***************************************************************************)
(* Packet codec.                                                           *)
(***************************************************************************)
NoPayload == [kind |-> "empty", size |-> 0]

NewDataPacket(connID, pktNum, payload, enablePadding) ==
  [Type |-> PacketType_DATA, ConnectionID |-> connID, PacketNumber |-> pktNum,
   Payload |-> payload, HasPadding |-> enablePadding]

NewHandshakePacket(connID, pktNum, payload) ==
  [Type |-> PacketType_HANDSHAKE, ConnectionID |-> connID, PacketNumber |-> pktNum,
   Payload |-> payload, HasPadding |-> TRUE]

NewKeepAlivePacket(connID, pktNum) ==
  [Type |-> PacketType_KEEPALIVE, ConnectionID |-> connID, PacketNumber |-> pktNum,
   Payload |-> NoPayload, HasPadding |-> TRUE]

NewControlPacket(connID, pktNum, payload) ==
  [Type |-> PacketType_CONTROL, ConnectionID |-> connID, PacketNumber |-> pktNum,
   Payload |-> payload, HasPadding |-> FALSE]

EncodeFlags(p) ==
  FlagFormBit + FlagFixedBit + (p.Type % 4) * 2^FlagTypeShift
    + (IF p.HasPadding THEN FlagPaddingBit ELSE 0)

IsQUICLike(firstByte) == (firstByte \div FlagFixedBit) % 4 = 3

FlagsType(flags) == (flags \div 2^FlagTypeShift) % 4

FlagsPadding(flags) == (flags \div FlagPaddingBit) % 2 = 1

\* The padding sizes mrand.Intn can give Marshal for a packet with HasPadding.
PaddingSizes(p, c) ==
  IF p.HasPadding /\ c.EnablePadding
    THEN IF c.PaddingMaxSize > c.PaddingMinSize
           THEN c.PaddingMinSize .. (c.PaddingMaxSize - 1)
           ELSE {c.PaddingMinSize}
    ELSE {0}

\* Marshal with the padding size it drew: the encoded datagram.
Marshal(p, c, paddingSize) ==
  [flags |-> EncodeFlags(p), version |-> FakeQUICVersion, cid |-> p.ConnectionID,
   pn |-> p.PacketNumber, payload |-> p.Payload,
   size |-> FlagsSize + VersionSize + c.ConnectionIdLength + PacketNumberSize
              + PayloadLengthSize + p.Payload.size
              + (IF p.HasPadding /\ paddingSize > 0
                   THEN paddingSize + PaddingLengthSize ELSE 0)]

\* Unmarshal succeeds on the datagram (the length and version checks).
UnmarshalOk(d, c) ==
  /\ d.size >= FlagsSize + VersionSize + c.ConnectionIdLength
                 + PacketNumberSize + PayloadLengthSize
  /\ IsQUICLike(d.flags)
  /\ d.version = FakeQUICVersion

(***************************************************************************)
(* The codec on bytes: a datagram is a sequence of bytes 0..255.           *)
(***************************************************************************)
\* binary.BigEndian.PutUint16(buf, uint16(n))
PutUint16LowByte(n) == <<0, n % 256>>

PutUint16(n) == <<(n \div 256) % 256, n % 256>>

\* binary.BigEndian.Uint16
Uint16(b) == b[1] * 256 + b[2]

\* binary.BigEndian.PutUint32
PutUint32(x) == <<x.hi \div 256, x.hi % 256, x.lo \div 256, x.lo % 256>>

\* binary.BigEndian.Uint32
Uint32(b) == [hi |-> b[1] * 256 + b[2], lo |-> b[3] * 256 + b[4]]

DecodeFlagsFormOnly(flags) ==
  IF (flags \div FlagFormBit) % 2 = 0
    THEN [err |-> "Form bit is 0", packetType |-> 0, hasPadding |-> FALSE]
  ELSE [err |-> "nil", packetType |-> FlagsType(flags),
        hasPadding |-> FlagsPadding(flags)]

DecodeFlags(flags) ==
  IF (flags \div FlagFormBit) % 2 = 0
    THEN [err |-> "Form bit is 0", packetType |-> 0, hasPadding |-> FALSE]
  ELSE IF (flags \div FlagFixedBit) % 2 = 0
    THEN [err |-> "Fixed bit is 0", packetType |-> 0, hasPadding |-> FALSE]
  ELSE [err |-> "nil", packetType |-> FlagsType(flags),
        hasPadding |-> FlagsPadding(flags)]

\* Marshal with the padding bytes it drew: the error and the datagram
MarshalBytes(p, c, padding) ==
  IF Len(p.ConnectionID) # c.ConnectionIdLength
    THEN [err |-> "connection ID length mismatch", data |-> <<>>]
  ELSE [err |-> "nil",
        data |-> <<EncodeFlags(p)>> \o PutUint32(U32(FakeQUICVersion))
                   \o p.ConnectionID \o PutUint32(p.PacketNumber)
                   \o PutUint16(Len(p.Payload)) \o p.Payload
                   \o (IF p.HasPadding /\ Len(padding) > 0
                         THEN padding \o PutUint16(Len(padding)) ELSE <<>>)]

\* The nil *Packet
NoPacketBytes ==
  [Type |-> 0, HasPadding |-> FALSE, ConnectionID |-> <<>>,
   PacketNumber |-> U32(0), Payload |-> <<>>]

\* Unmarshal: the error and the Packet
Unmarshal(data, connIDLen) ==
  LET header == FlagsSize + VersionSize + connIDLen + PacketNumberSize
                  + PayloadLengthSize
      cidAt == FlagsSize + VersionSize
      pnAt == cidAt + connIDLen
      lenAt == pnAt + PacketNumberSize
      payloadAt == lenAt + PayloadLengthSize
  IN IF Len(data) < header
       THEN [err |-> "packet too short", p |-> NoPacketBytes]
     ELSE IF DecodeFlags(data[1]).err # "nil"
       THEN [err |-> "decode flags", p |-> NoPacketBytes]
     ELSE IF Uint32(SubSeq(data, FlagsSize + 1, cidAt)) # U32(FakeQUICVersion)
       THEN [err |-> "unsupported version", p |-> NoPacketBytes]
     ELSE IF payloadAt + Uint16(SubSeq(data, lenAt + 1, payloadAt)) > Len(data)
       THEN [err |-> "packet truncated", p |-> NoPacketBytes]
     ELSE [err |-> "nil",
           p |-> [Type |-> DecodeFlags(data[1]).packetType,
                  HasPadding |-> DecodeFlags(data[1]).hasPadding,
                  ConnectionID |-> SubSeq(data, cidAt + 1, pnAt),
                  PacketNumber |-> Uint32(SubSeq(data, pnAt + 1, lenAt)),
                  Payload |->
                    SubSeq(data, payloadAt + 1,
                           payloadAt + Uint16(SubSeq(data, lenAt + 1, payloadAt)))]]

(***************************************************************************)
(* Obfuscation (obfs.go).  A uint64 is its eight bytes, most significant   *)
(* first.                                                                  *)
(***************************************************************************)
ObfuscationMode_QUIC_MIMIC == 0
ObfuscationMode_WEBRTC_MIMIC == 1
ObfuscationMode_RAW == 2
ObfuscationModes ==
  {ObfuscationMode_QUIC_MIMIC, ObfuscationMode_WEBRTC_MIMIC, ObfuscationMode_RAW}

dtlsContentTypeApplicationData == 23
dtlsVersion12Major == 254
dtlsVersion12Minor == 253

\* QUIC v1 and QUIC v2 (0x6B3343CF)
quicVersions == {U32(1), [hi |-> 27443, lo |-> 17359]}

RECURSIVE BitOr(_, _)
BitOr(a, b) ==
  IF a = 0 THEN b
  ELSE IF b = 0 THEN a
  ELSE (IF a % 2 = 1 \/ b % 2 = 1 THEN 1 ELSE 0) + 2 * BitOr(a \div 2, b \div 2)

RECURSIVE BitAnd(_, _)
BitAnd(a, b) ==
  IF a = 0 \/ b = 0 THEN 0
  ELSE (IF a % 2 = 1 /\ b % 2 = 1 THEN 1 ELSE 0) + 2 * BitAnd(a \div 2, b \div 2)

\* uint64(n) of a non-negative int below 2^31
U64(n) ==
  <<0, 0, 0, 0, (n \div 16777216) % 256, (n \div 65536) % 256,
    (n \div 256) % 256, n % 256>>

\* a <= b on uint64
U64Leq(a, b) ==
  a = b \/ \E i \in 1 .. 8 : a[i] < b[i] /\ \A j \in 1 .. (i - 1) : a[j] = b[j]

\* int(v) of a uint64 below 2^24
U64Int(v) == v[6] * 65536 + v[7] * 256 + v[8]

\* encodeQUICVarint with the one-byte form taken up to 64
encodeQUICVarintUpTo64(value) ==
  IF U64Leq(value, U64(64)) THEN <<value[8]>>
  ELSE IF U64Leq(value, U64(16383)) THEN <<BitOr(value[7], 64), value[8]>>
  ELSE IF U64Leq(value, U64(1073741823))
    THEN <<BitOr(value[5], 128), value[6], value[7], value[8]>>
  ELSE <<BitOr(value[1], 192)>> \o SubSeq(value, 2, 8)

encodeQUICVarint(value) ==
  IF U64Leq(value, U64(63)) THEN <<value[8]>>
  ELSE IF U64Leq(value, U64(16383)) THEN <<BitOr(value[7], 64), value[8]>>
  ELSE IF U64Leq(value, U64(1073741823))
    THEN <<BitOr(value[5], 128), value[6], value[7], value[8]>>
  ELSE <<BitOr(value[1], 192)>> \o SubSeq(value, 2, 8)

\* decodeQUICVarint that leaves the prefix bits in the value
decodeQUICVarintUnmasked(data) ==
  IF Len(data) = 0
    THEN [err |-> "empty data for varint decoding", value |-> U64(0), n |-> 0]
  ELSE
    LET prefix == data[1] \div 64
        short(e) == [err |-> e, value |-> U64(0), n |-> 0]
    IN CASE prefix = 0 -> [err |-> "nil", value |-> U64(data[1]), n |-> 1]
         [] prefix = 1 ->
              IF Len(data) < 2 THEN short("truncated 2-byte varint")
              ELSE [err |-> "nil",
                    value |-> <<0, 0, 0, 0, 0, 0, data[1], data[2]>>, n |-> 2]
         [] prefix = 2 ->
              IF Len(data) < 4 THEN short("truncated 4-byte varint")
              ELSE [err |-> "nil",
                    value |-> <<0, 0, 0, 0, data[1], data[2], data[3], data[4]>>,
                    n |-> 4]
         [] prefix = 3 ->
              IF Len(data) < 8 THEN short("truncated 8-byte varint")
              ELSE [err |-> "nil", value |-> SubSeq(data, 1, 8), n |-> 8]

\* (value, bytes read, error)
decodeQUICVarint(data) ==
  IF Len(data) = 0
    THEN [err |-> "empty data for varint decoding", value |-> U64(0), n |-> 0]
  ELSE
    LET prefix == data[1] \div 64
        short(e) == [err |-> e, value |-> U64(0), n |-> 0]
    IN CASE prefix = 0 ->
              [err |-> "nil", value |-> U64(BitAnd(data[1], 63)), n |-> 1]
         [] prefix = 1 ->
              IF Len(data) < 2 THEN short("truncated 2-byte varint")
              ELSE [err |-> "nil",
                    value |-> <<0, 0, 0, 0, 0, 0, BitAnd(data[1], 63), data[2]>>,
                    n |-> 2]
         [] prefix = 2 ->
              IF Len(data) < 4 THEN short("truncated 4-byte varint")
              ELSE [err |-> "nil",
                    value |-> <<0, 0, 0, 0, BitAnd(data[1], 63), data[2],
                                data[3], data[4]>>,
                    n |-> 4]
         [] prefix = 3 ->
              IF Len(data) < 8 THEN short("truncated 8-byte varint")
              ELSE [err |-> "nil",
                    value |-> <<BitAnd(data[1], 63)>> \o SubSeq(data, 2, 8),
                    n |-> 8]

\* data[from:], from counted from 0
From(data, from) == SubSeq(data, from + 1, Len(data))

\* QUICObfuscator.Wrap; scid is what rand.Read gave, version the element of
\* quicVersions that was drawn
QUICWrap(packet, scid, version) ==
  IF Len(packet) < FlagsSize + VersionSize
    THEN [err |-> "packet too short for QUIC wrapping", data |-> <<>>]
  ELSE
    LET flags == packet[1]
        originalData == From(packet, FlagsSize + VersionSize)
        dcidLen == 8
        scidLen == 8
    IN IF Len(originalData) < dcidLen
         THEN [err |-> "packet too short for DCID", data |-> <<>>]
       ELSE
         LET dcid == SubSeq(originalData, 1, dcidLen)
             restData == From(originalData, dcidLen)
             payloadLenEncoded == encodeQUICVarint(U64(Len(restData)))
         IN [err |-> "nil",
             data |-> <<flags>> \o PutUint32(version) \o <<dcidLen>> \o dcid
                        \o <<scidLen>> \o SubSeq(scid, 1, scidLen) \o <<0>>
                        \o payloadLenEncoded \o restData]

\* QUICObfuscator.Unwrap
QUICUnwrap(data) ==
  LET fail(e) == [err |-> e, data |-> <<>>]
      n == Len(data)
  IN IF n < 7 THEN fail("QUIC packet too short")
     ELSE
       LET flags == data[1]
           dcidLen == data[6]
           dcidAt == 6
       IN IF dcidAt + dcidLen > n THEN fail("truncated: DCID extends beyond packet")
          ELSE IF dcidAt + dcidLen >= n THEN fail("truncated: missing SCID length")
          ELSE
            LET dcid == SubSeq(data, dcidAt + 1, dcidAt + dcidLen)
                scidLen == data[dcidAt + dcidLen + 1]
                scidAt == dcidAt + dcidLen + 1
            IN IF scidAt + scidLen > n THEN fail("truncated: SCID extends beyond packet")
               ELSE IF scidAt + scidLen >= n THEN fail("truncated: missing token length")
               ELSE
                 LET token == decodeQUICVarint(From(data, scidAt + scidLen))
                     tokenAt == scidAt + scidLen + token.n
                 IN IF token.err # "nil" THEN fail("decode token length")
                    ELSE IF \/ ~U64Leq(token.value, U64(n))
                            \/ tokenAt + U64Int(token.value) > n
                      THEN fail("truncated: token extends beyond packet")
                    ELSE IF tokenAt + U64Int(token.value) >= n
                      THEN fail("truncated: missing payload length")
                    ELSE
                      LET lenAt == tokenAt + U64Int(token.value)
                          payloadLen == decodeQUICVarint(From(data, lenAt))
                      IN IF payloadLen.err # "nil" THEN fail("decode payload length")
                         ELSE [err |-> "nil",
                               data |-> <<flags>> \o PutUint32(U32(FakeQUICVersion))
                                          \o dcid \o From(data, lenAt + payloadLen.n)]

\* WebRTCObfuscator.Wrap; epoch is the obfuscator's field, seqNum the low 48
\* bits of the clock as six bytes
WebRTCWrap(packet, epoch, seqNum) ==
  [err |-> "nil",
   data |-> <<dtlsContentTypeApplicationData, dtlsVersion12Major,
              dtlsVersion12Minor>> \o PutUint16(epoch) \o SubSeq(seqNum, 1, 6)
              \o PutUint16(Len(packet)) \o packet]

\* WebRTCObfuscator.Unwrap
WebRTCUnwrap(data) ==
  LET headerSize == 13
      fail(e) == [err |-> e, data |-> <<>>]
  IN IF Len(data) < headerSize THEN fail("DTLS record too short")
     ELSE IF data[1] # dtlsContentTypeApplicationData
       THEN fail("unexpected DTLS content type")
     ELSE IF data[2] # dtlsVersion12Major \/ data[3] # dtlsVersion12Minor
       THEN fail("unexpected DTLS version")
     ELSE
       LET payloadLen == Uint16(SubSeq(data, 12, 13))
       IN IF payloadLen > Len(data) - headerSize
            THEN fail("DTLS payload length mismatch")
          ELSE [err |-> "nil",
                data |-> SubSeq(data, headerSize + 1, headerSize + payloadLen)]

\* RawObfuscator.Wrap and Unwrap
RawWrap(packet) == [err |-> "nil", data |-> packet]

RawUnwrap(data) == [err |-> "nil", data |-> data]

\* NewObfuscator(mode).Wrap(packet)
Wrap(mode, packet, rnd, version) ==
  CASE mode = ObfuscationMode_WEBRTC_MIMIC -> WebRTCWrap(packet, 0, rnd)
    [] mode = ObfuscationMode_RAW -> RawWrap(packet)
    [] OTHER -> QUICWrap(packet, rnd, version)

\* NewObfuscator(mode).Unwrap(data)
Unwrap(mode, data) ==
  CASE mode = ObfuscationMode_WEBRTC_MIMIC -> WebRTCUnwrap(data)
    [] mode = ObfuscationMode_RAW -> RawUnwrap(data)
    [] OTHER -> QUICUnwrap(data)

(***************************************************************************)
(* Cryptography.  A key pair is named by an index; X25519 of one private   *)
(* key with the other public key is the unordered pair of the two.         *)
(***************************************************************************)
ComputeSharedSecret(myPrivate, theirPublic) == {myPrivate, theirPublic}

\* ComputeSharedSecret's error: the result is all zero, which a public key of
\* small order gives with every private key; public key 0 names such a point
ComputeSharedSecretIsZero(myPrivate, theirPublic) == theirPublic = 0

\* HKDF-SHA256 read for KeySize bytes: the key is named by what it was
\* derived from
hkdf(ikm, salt, info) == [ikm |-> ikm, salt |-> salt, info |-> info]

\* DeriveSessionKeys with the server's order for both roles
DeriveSessionKeysOneOrder(sharedSecret, psk, isClient) ==
  LET salt == IF psk # 0 THEN <<"GameTunnel-v1-salt", [sha256 |-> psk]>>
                         ELSE <<"GameTunnel-v1-salt">>
      clientToServerKey == hkdf(sharedSecret, salt, "gametunnel client-to-server")
      serverToClientKey == hkdf(sharedSecret, salt, "gametunnel server-to-client")
  IN  [SendKey |-> serverToClientKey, RecvKey |-> clientToServerKey]

\* The pre-shared key is a number, 0 for the empty string; a non-empty one
\* is hashed into the salt
DeriveSessionKeys(sharedSecret, psk, isClient) ==
  LET salt == IF psk # 0 THEN <<"GameTunnel-v1-salt", [sha256 |-> psk]>>
                         ELSE <<"GameTunnel-v1-salt">>
      clientToServerKey == hkdf(sharedSecret, salt, "gametunnel client-to-server")
      serverToClientKey == hkdf(sharedSecret, salt, "gametunnel server-to-client")
  IN  IF isClient
        THEN [SendKey |-> clientToServerKey, RecvKey |-> serverToClientKey]
        ELSE [SendKey |-> serverToClientKey, RecvKey |-> clientToServerKey]

\* The AAD: the header up to the connection ID (flags, version, connection ID).
AdditionalData(flags, version, connID) ==
  [flags |-> flags, version |-> version, cid |-> connID]

\* Seal: the ciphertext remembers what it was sealed with; the tag adds 16 bytes.
Encrypt(keys, plaintext, packetNumber, additionalData) ==
  [kind |-> "ct", key |-> keys.SendKey, nonce |-> packetNumber,
   aad |-> additionalData, pt |-> plaintext, intact |-> TRUE,
   size |-> plaintext.size + AuthTagSize]

\* Open succeeds only under the sealing key, nonce and AAD, on untouched bytes.
DecryptOkAnyKey(keys, ciphertext, packetNumber, additionalData) ==
  /\ ciphertext.kind = "ct"
  /\ ciphertext.intact
  /\ ciphertext.nonce = packetNumber
  /\ ciphertext.aad = additionalData

DecryptOk(keys, ciphertext, packetNumber, additionalData) ==
  /\ ciphertext.kind = "ct"
  /\ ciphertext.intact
  /\ ciphertext.key = keys.RecvKey
  /\ ciphertext.nonce = packetNumber
  /\ ciphertext.aad = additionalData

HandshakePayload(publicKey) ==
  [kind |-> "hs", pub |-> publicKey, size |-> HandshakePayloadSize]

ControlPayload(bytes) == [kind |-> "ctl", bytes |-> bytes, size |-> Len(bytes)]


(***************************************************************************)
(* Byte strings are runs base, base+1, ... of the given length, so that a  *)
(* slice and a remainder of a buffer are again byte strings.               *)
(***************************************************************************)
Buf(base, n) == [kind |-> "buf", base |-> base, size |-> n]

NoBuf == Buf(0, 0)

\* A slice that always starts at the first byte
SliceFromStart(b, from, to) == Buf(b.base, to - from)

Slice(b, from, to) == Buf(b.base + from, to - from)

Min(a, b) == IF a < b THEN a ELSE b

(***************************************************************************)
(* The packet scheduler (priority.go): three bounded FIFO channels.        *)
(***************************************************************************)
PriorityMode_NONE == 0

PriorityMode_GAMING == 1

PriorityMode_STREAMING == 2

PriorityModes == {PriorityMode_NONE, PriorityMode_GAMING, PriorityMode_STREAMING}

PriorityHigh == 0

PriorityMedium == 1

PriorityLow == 2

PriorityLevels == 3

HighQueueSize == 512

MediumQueueSize == 256

LowQueueSize == 128

HighPriorityMaxSize == 256

MediumPriorityMaxSize == 1024

\* NewPriorityQueue: the starvation guard, milliseconds
StarvationTimeoutMs == 500

Levels == 0 .. (PriorityLevels - 1)

\* NewPriorityQueue: the capacity of each level's channel
QueueSize(level) ==
  CASE level = PriorityHigh -> HighQueueSize
    [] level = PriorityMedium -> MediumQueueSize
    [] OTHER -> LowQueueSize

\* The nil *PriorityPacket
NoPacket == [Data |-> NoBuf, Priority |-> PriorityLevels, EnqueuedAt |-> -1]

\* PriorityPacket (the Session pointer is carried along and never read)
PriorityPacket(data, priority, at) ==
  [Data |-> data, Priority |-> priority, EnqueuedAt |-> at]

NewPriorityQueue(mode) ==
  [queues |-> [l \in Levels |-> <<>>], mode |-> mode,
   enqueuedHigh |-> 0, enqueuedMedium |-> 0, enqueuedLow |-> 0, dropped |-> 0,
   starvationTimeout |-> StarvationTimeoutMs]

\* classifyGaming with the bounds taken as exclusive
classifyGamingExclusive(data) ==
  IF data.size < HighPriorityMaxSize THEN PriorityHigh
  ELSE IF data.size < MediumPriorityMaxSize THEN PriorityMedium
  ELSE PriorityLow

classifyGaming(data) ==
  IF data.size <= HighPriorityMaxSize THEN PriorityHigh
  ELSE IF data.size <= MediumPriorityMaxSize THEN PriorityMedium
  ELSE PriorityLow

classifyStreaming(data) ==
  IF data.size <= HighPriorityMaxSize THEN PriorityHigh
  ELSE IF data.size <= MediumPriorityMaxSize THEN PriorityHigh
  ELSE PriorityMedium

classify(q, data) ==
  CASE q.mode = PriorityMode_GAMING -> classifyGaming(data)
    [] q.mode = PriorityMode_STREAMING -> classifyStreaming(data)
    [] OTHER -> PriorityMedium

updateEnqueueStats(q, level) ==
  CASE level = PriorityHigh -> [q EXCEPT !.enqueuedHigh = @ + 1]
    [] level = PriorityMedium -> [q EXCEPT !.enqueuedMedium = @ + 1]
    [] level = PriorityLow -> [q EXCEPT !.enqueuedLow = @ + 1]
    [] OTHER -> q

\* select { case queues[level] <- pkt: ... default: ... }: is there room
HasRoomAlways(q, level) == TRUE

HasRoom(q, level) == Len(q.queues[level]) < QueueSize(level)

\* case queues[level] <- pkt
Send(q, level, pkt) == [q EXCEPT !.queues[level] = Append(@, pkt)]

\* case pkt := <-queues[level]
Receive(q, level) == [q EXCEPT !.queues[level] = Tail(@)]

Dropped(q) == [q EXCEPT !.dropped = @ + 1]

\* tryBump: displace a Low, else a Medium entry, then try High again
tryBump(q, highPkt) ==
  LET bumped ==
        IF q.queues[PriorityLow] # <<>> THEN Dropped(Receive(q, PriorityLow))
        ELSE Dropped(Receive(q, PriorityMedium))
  IN IF q.queues[PriorityLow] = <<>> /\ q.queues[PriorityMedium] = <<>>
       THEN [pq |-> Dropped(q), ok |-> FALSE]
     ELSE IF HasRoom(bumped, PriorityHigh)
       THEN [pq |-> updateEnqueueStats(Send(bumped, PriorityHigh, highPkt),
                                       PriorityHigh),
             ok |-> TRUE]
     ELSE [pq |-> Dropped(bumped), ok |-> FALSE]

\* Enqueue at time t
Enqueue(q, data, t) ==
  LET priority == classify(q, data)
      pkt == PriorityPacket(data, priority, t)
  IN IF HasRoom(q, priority)
       THEN [pq |-> updateEnqueueStats(Send(q, priority, pkt), priority), ok |-> TRUE]
     ELSE IF priority = PriorityHigh THEN tryBump(q, pkt)
     ELSE [pq |-> Dropped(q), ok |-> FALSE]

\* EnqueueWithPriority at time t
EnqueueWithPriority(q, data, priority, t) ==
  LET level == IF priority >= PriorityLevels THEN PriorityLow ELSE priority
      pkt == PriorityPacket(data, level, t)
  IN IF HasRoom(q, level)
       THEN [pq |-> updateEnqueueStats(Send(q, level, pkt), level), ok |-> TRUE]
     ELSE [pq |-> Dropped(q), ok |-> FALSE]

checkStarvationNever(q, level, t) == [pq |-> q, isStarving |-> FALSE]

\* checkStarvation at time t: the head is received, judged and sent again
checkStarvation(q, level, t) ==
  IF q.queues[level] = <<>> THEN [pq |-> q, isStarving |-> FALSE]
  ELSE LET pkt == Head(q.queues[level])
           taken == Receive(q, level)
           isStarving == t - pkt.EnqueuedAt > q.starvationTimeout
       IN [pq |-> IF HasRoom(taken, level) THEN Send(taken, level, pkt)
                  ELSE taken,
           isStarving |-> isStarving]

\* Dequeue at time t
Dequeue(q, t) ==
  IF q.queues[PriorityHigh] # <<>>
    THEN [pq |-> Receive(q, PriorityHigh), pkt |-> Head(q.queues[PriorityHigh])]
  ELSE LET s == checkStarvation(q, PriorityLow, t)
           p == s.pq
       IN IF s.isStarving /\ p.queues[PriorityLow] # <<>>
            THEN [pq |-> Receive(p, PriorityLow), pkt |-> Head(p.queues[PriorityLow])]
          ELSE IF p.queues[PriorityMedium] # <<>>
            THEN [pq |-> Receive(p, PriorityMedium), pkt |-> Head(p.queues[PriorityMedium])]
          ELSE IF p.queues[PriorityLow] # <<>>
            THEN [pq |-> Receive(p, PriorityLow), pkt |-> Head(p.queues[PriorityLow])]
          ELSE [pq |-> p, pkt |-> NoPacket]

\* GetStats
GetStats(q) ==
  [HighQueued |-> Len(q.queues[PriorityHigh]),
   MediumQueued |-> Len(q.queues[PriorityMedium]),
   LowQueued |-> Len(q.queues[PriorityLow]),
   TotalEnqueued |-> q.enqueuedHigh + q.enqueuedMedium + q.enqueuedLow,
   HighEnqueued |-> q.enqueuedHigh, MediumEnqueued |-> q.enqueuedMedium,
   LowEnqueued |-> q.enqueuedLow, Dropped |-> q.dropped]

(***************************************************************************)
(* State.                                                                  *)
(***************************************************************************)
VARIABLES
  cfg,        \* the validated Config shared by the Hub and the views
  now,        \* wall clock, seconds
  hub,        \* Hub: closed, totalSessions, activeSessions, sessionTimeout
  sessions,   \* Hub.sessions: connection ID -> session (0: no entry)
  sess,       \* the Session objects, by allocation order
  view,       \* the GameTunnelConn created for each session by onNewSession
  rx,         \* Listener.receiveLoop: between RoutePacket and PushInbound
  reaper,     \* Hub.cleanupLoop: ticker and the keys collected for removal
  out,        \* datagrams handed to the UDP socket by the last step
  ret,        \* what the last call returned
  firstData,  \* history: number of the first Data packet each session sealed
  pq,         \* the PriorityQueue
  nowMs,      \* monotonic clock, milliseconds
  pqRet,      \* what the last scheduler call returned
  pure,       \* a function of the package applied on its own: input and result
  dq,         \* the caller of Dequeue inside checkStarvation: the head it holds
  client,     \* the GameTunnelClientConn of one dialling client
  lk          \* the server's locks and the position of each goroutine at them

\* The state of the Hub, its sessions and their views
hubVars ==
  <<cfg, now, hub, sessions, sess, view, rx, reaper, out, ret, firstData>>

\* The consumer of the scheduler, the client, the goroutines at the locks
side == <<dq, client, lk>>

\* The state the Hub never reads or writes
apart == <<pq, nowMs, pqRet, pure, dq, client, lk>>

vars == <<cfg, now, hub, sessions, sess, view, rx, reaper, out, ret, firstData,
          pq, nowMs, pqRet, pure, dq, client, lk>>

KeyPair(i) == [PrivateKey |-> i, PublicKey |-> i]

NoKeyPair == KeyPair(0)

ClientKeyPair == KeyPair(1)

\* GenerateKeyPair on the server: a fresh pair for the n-th session.
ServerKeyPair(n) == KeyPair(10 + n)

NoSession ==
  [alloc |-> FALSE, ID |-> 0, State |-> SessionState_HANDSHAKE, RemoteAddr |-> 0,
   Keys |-> DeriveSessionKeys({}, 0, FALSE), LocalKeyPair |-> NoKeyPair,
   SendPacketNum |-> U32(0), LastActiveAt |-> 0,
   inbound |-> <<>>, closed |-> 0, chanClosed |-> 0]

NoView ==
  [made |-> FALSE, remote |-> 0, closed |-> 0, closing |-> FALSE, reading |-> 0,
   readBuf |-> NoBuf, readOffset |-> 0, closeSent |-> 0,
   writing |-> FALSE, b |-> NoBuf, totalWritten |-> 0]

\* No packet number recorded
NoPn == [hi |-> -1, lo |-> -1]

NoRet == [op |-> "none", sid |-> 0, n |-> 0, err |-> "nil", b |-> NoBuf]

\* What a call returned; b is what a Read copied into the caller's buffer
Ret(op, sid, n, err) == [op |-> op, sid |-> sid, n |-> n, err |-> err, b |-> NoBuf]

\* No function applied
NoPure ==
  [op |-> "none", p |-> NoPacketBytes, padding |-> <<>>, err |-> "nil",
   data |-> <<>>, res |-> [err |-> "nil", p |-> NoPacketBytes],
   mode |-> ObfuscationMode_RAW, wrap |-> [err |-> "nil", data |-> <<>>],
   unwrap |-> [err |-> "nil", data |-> <<>>], arg |-> <<>>, val |-> <<>>]

\* Byte strings of a given length
PatternBytes(seed, n) == [i \in 1 .. n |-> (seed + i) % 256]

CodecSeeds == {0, 254}

\* Validated Configs: connection IDs of 4, 8 and 20 bytes, padding disabled,
\* enabled, and enabled with a range that holds only 0
CodecConfigs ==
  {[c EXCEPT !.ConnectionIdLength = n] : c \in Configs, n \in {4, 8, 20}}
    \cup {[c EXCEPT !.PaddingMinSize = 0, !.PaddingMaxSize = 0] :
            c \in {x \in Configs : x.EnablePadding}}

\* Packet numbers: 0, 0x01020304 and 2^32 - 1
CodecPns == {U32(0), [hi |-> 258, lo |-> 772], U32Max}

\* Packets of every kind, with payloads of 0, 1, 256 and max_payload bytes
CodecPackets(c) ==
  {[Type |-> t, HasPadding |-> h,
    ConnectionID |-> PatternBytes(seed, c.ConnectionIdLength),
    PacketNumber |-> pn, Payload |-> PatternBytes(seed, n)] :
     t \in {PacketType_DATA, PacketType_HANDSHAKE, PacketType_KEEPALIVE,
            PacketType_CONTROL},
     h \in BOOLEAN, seed \in CodecSeeds, pn \in CodecPns,
     n \in {0, 1, 256, GetMaxPayloadSize(c)}}

\* Nothing returned by the scheduler yet
NoPqRet == [op |-> "none", ok |-> FALSE, pkt |-> NoPacket]

\* What a scheduler call returned: the boolean of an enqueue (with the packet
\* it built), the packet of a Dequeue
PqRet(op, ok, pkt) == [op |-> op, ok |-> ok, pkt |-> pkt]

\* No caller is inside checkStarvation
NoDq == [pc |-> "idle", pkt |-> NoPacket, isStarving |-> FALSE]

\* The client before Dial.  wire is what its last step wrote to the socket,
\* lastSend the time of its last write; helloPn, serverHelloPn and firstData
\* record the packet numbers of its run, keepAlives counts the KeepAlives sent.
NoClient ==
  [state |-> "new", ConnectionID |-> 0, Keys |-> DeriveSessionKeys({}, 0, TRUE),
   SendPacketNum |-> U32(0), closed |-> 0, wire |-> <<>>, lastSend |-> 0,
   helloPn |-> NoPn, serverHelloPn |-> NoPn, firstData |-> NoPn,
   keepAlives |-> 0]

\* The goroutines of the server around one session and its view: the
\* receive loop, the reaper, two callers of Read, a caller of Write, a caller
\* of Close, and Listener.Close
Threads == {"rx", "reaper", "read1", "read2", "write", "close", "stop"}

\* A sync.RWMutex: the writer that holds it and the readers that hold it
NoRWMutex == [w |-> "", r |-> {}]

\* Before the first datagram: no session, every goroutine outside its call.
\* hmu is Hub.mu, smu Session.mu, cmu GameTunnelConn.mu; entry says the
\* table holds the session, created that the session and its view exist.
NoLocks ==
  [pc |-> [t \in Threads |->
             CASE t = "reaper" -> "wait"
               [] t \in {"close", "stop"} -> "start"
               [] OTHER -> "idle"],
   hmu |-> NoRWMutex, smu |-> NoRWMutex, cmu |-> "",
   entry |-> FALSE, created |-> FALSE, sclosed |-> 0, chanClosed |-> FALSE,
   inbound |-> 0, hclosed |-> 0, vclosed |-> 0, kind |-> "none"]

InitSide == dq = NoDq /\ client = NoClient /\ lk = NoLocks

\* newGameTunnelConn: the view handed to the host by onNewSession
newGameTunnelConn(session) ==
  [NoView EXCEPT !.made = TRUE, !.remote = session.RemoteAddr]

RxIdle == [pc |-> "read", sid |-> 0, plaintext |-> NoBuf]

\* An idle timeout of at least five minutes
NewHubTimeoutAtLeastFiveMinutes(c) ==
  IF c.KeepAliveInterval * 3 > DisabledKeepAliveTimeoutSec
    THEN c.KeepAliveInterval * 3
    ELSE DisabledKeepAliveTimeoutSec

\* NewHub: the idle timeout
NewHubTimeoutAlwaysTriple(c) == c.KeepAliveInterval * 3

NewHubTimeout(c) ==
  IF c.KeepAliveInterval = 0
    THEN DisabledKeepAliveTimeoutSec
    ELSE c.KeepAliveInterval * 3

NewHub(c) ==
  [closed |-> 0, totalSessions |-> 0, activeSessions |-> 0,
   cleanupInterval |-> CleanupIntervalSec, sessionTimeout |-> NewHubTimeout(c)]

Init ==
  /\ cfg \in Configs
  /\ now = 0
  /\ hub = NewHub(cfg)
  /\ sessions = [c \in CIDs |-> 0]
  /\ sess = [s \in SIDs |-> NoSession]
  /\ view = [s \in SIDs |-> NoView]
  /\ rx = RxIdle
  /\ reaper = [pc |-> "wait", toRemove |-> {}, nextTick |-> CleanupIntervalSec]
  /\ out = <<>>
  /\ ret = NoRet
  /\ firstData = [s \in SIDs |-> NoPn]
  /\ pq = NewPriorityQueue(PriorityMode_GAMING)
  /\ nowMs = 0
  /\ pqRet = NoPqRet
  /\ InitSide
  /\ pure = NoPure

\* The same under one Config, with a scheduler of any mode
InitSched ==
  /\ cfg = CHOOSE c \in Configs : c.ConnectionIdLength = 20
  /\ now = 0
  /\ hub = NewHub(cfg)
  /\ sessions = [c \in CIDs |-> 0]
  /\ sess = [s \in SIDs |-> NoSession]
  /\ view = [s \in SIDs |-> NoView]
  /\ rx = RxIdle
  /\ reaper = [pc |-> "wait", toRemove |-> {}, nextTick |-> CleanupIntervalSec]
  /\ out = <<>>
  /\ ret = NoRet
  /\ firstData = [s \in SIDs |-> NoPn]
  /\ pq \in {NewPriorityQueue(mode) : mode \in PriorityModes}
  /\ nowMs = 0
  /\ pqRet = NoPqRet
  /\ InitSide
  /\ pure = NoPure

\* The same under every Config the codec is checked for, with a Packet to
\* encode
InitCodec ==
  /\ cfg \in CodecConfigs
  /\ now = 0
  /\ hub = NewHub(cfg)
  /\ sessions = [c \in CIDs |-> 0]
  /\ sess = [s \in SIDs |-> NoSession]
  /\ view = [s \in SIDs |-> NoView]
  /\ rx = RxIdle
  /\ reaper = [pc |-> "wait", toRemove |-> {}, nextTick |-> CleanupIntervalSec]
  /\ out = <<>>
  /\ ret = NoRet
  /\ firstData = [s \in SIDs |-> NoPn]
  /\ pq = NewPriorityQueue(PriorityMode_GAMING)
  /\ nowMs = 0
  /\ pqRet = NoPqRet
  /\ InitSide
  /\ pure \in {[NoPure EXCEPT !.op = "Packet", !.p = p] : p \in CodecPackets(cfg)}

\* Everything but the function applied on its own, under one of the Configs
InitWith(configs) ==
  /\ cfg \in configs
  /\ now = 0
  /\ hub = NewHub(cfg)
  /\ sessions = [c \in CIDs |-> 0]
  /\ sess = [s \in SIDs |-> NoSession]
  /\ view = [s \in SIDs |-> NoView]
  /\ rx = RxIdle
  /\ reaper = [pc |-> "wait", toRemove |-> {}, nextTick |-> CleanupIntervalSec]
  /\ out = <<>>
  /\ ret = NoRet
  /\ firstData = [s \in SIDs |-> NoPn]
  /\ pq = NewPriorityQueue(PriorityMode_GAMING)
  /\ nowMs = 0
  /\ pqRet = NoPqRet
  /\ InitSide

\* A datagram with one byte replaced
WithByte(data, i, b) == [data EXCEPT ![i] = b]

\* Datagrams as they arrive: an encoded packet of each kind with a 3-byte
\* payload, as it is and with padding, cut short, with the form or the fixed
\* bit cleared, under another version, and with a payload length that
\* announces more than the datagram holds
DecodeInputs(c) ==
  LET header == FlagsSize + VersionSize + c.ConnectionIdLength
                  + PacketNumberSize + PayloadLengthSize
      good(t) ==
        MarshalBytes([Type |-> t, HasPadding |-> TRUE,
                      ConnectionID |-> PatternBytes(0, c.ConnectionIdLength),
                      PacketNumber |-> U32(1), Payload |-> PatternBytes(0, 3)],
                     c, <<>>).data
  IN UNION {
       {good(t), good(t) \o PatternBytes(0, 5) \o PutUint16(5),
        <<>>, SubSeq(good(t), 1, 1), SubSeq(good(t), 1, header - 1),
        SubSeq(good(t), 1, header), SubSeq(good(t), 1, header + 2),
        WithByte(good(t), 1, good(t)[1] - FlagFormBit),
        WithByte(good(t), 1, good(t)[1] - FlagFixedBit),
        WithByte(good(t), 1, 0),
        WithByte(good(t), 2, 1), WithByte(good(t), 5, 2), WithByte(good(t), 5, 0),
        WithByte(good(t), header, 4), WithByte(good(t), header - 1, 255)} :
       t \in {PacketType_DATA, PacketType_HANDSHAKE, PacketType_KEEPALIVE,
              PacketType_CONTROL} }

\* Packets whose connection ID is not of the configured length
MismatchedPackets(c) ==
  {[Type |-> PacketType_DATA, HasPadding |-> h,
    ConnectionID |-> PatternBytes(0, n), PacketNumber |-> U32(1),
    Payload |-> PatternBytes(0, 3)] :
     h \in BOOLEAN,
     n \in {0, c.ConnectionIdLength - 1, c.ConnectionIdLength + 1}}

\* Packets of every kind whose encoding, less its first 13 bytes, is 63 or 64
\* bytes long when no padding follows, and the shortest and the longest ones
ObfsPackets(c) ==
  {[Type |-> t, HasPadding |-> h,
    ConnectionID |-> PatternBytes(seed, c.ConnectionIdLength),
    PacketNumber |-> pn, Payload |-> PatternBytes(seed, n)] :
     t \in {PacketType_DATA, PacketType_HANDSHAKE, PacketType_KEEPALIVE,
            PacketType_CONTROL},
     h \in BOOLEAN, seed \in CodecSeeds, pn \in {[hi |-> 258, lo |-> 772]},
     n \in {0, 65 - c.ConnectionIdLength, 66 - c.ConnectionIdLength,
            GetMaxPayloadSize(c)}}

\* A Packet to encode and the obfuscation mode of the connection
InitObfs ==
  /\ InitWith(CodecConfigs)
  /\ pure \in {[NoPure EXCEPT !.op = "Packet", !.p = p, !.mode = m] :
                 p \in ObfsPackets(cfg), m \in ObfuscationModes}

\* Pre-shared keys: none, the server's, another one
PSKs == {0, 1, 2}

\* Key pairs of clients and servers
KeyPairs == {KeyPair(i) : i \in {1, 2, 3, 11, 12, 13}}

\* A shared secret computed by either side, and a pre-shared key
InitKeys ==
  /\ InitWith(Configs)
  /\ pure \in {[NoPure EXCEPT !.op = "Secret",
                               !.arg = [sharedSecret |->
                                          ComputeSharedSecret(a.PrivateKey,
                                                              b.PublicKey),
                                        psk |-> psk]] :
                 a \in KeyPairs, b \in KeyPairs, psk \in PSKs}

\* Packet sizes: the empty packet, the sizes around 256 and 1024, an MTU and
\* the largest UDP payload
ClassifySizes ==
  (0 .. 3) \cup (250 .. 262) \cup (1018 .. 1030) \cup {1400, 1500, 65507}

\* A scheduler of any mode and a packet to classify
InitClassify ==
  /\ cfg = CHOOSE c \in Configs : c.ConnectionIdLength = 20
  /\ now = 0
  /\ hub = NewHub(cfg)
  /\ sessions = [c \in CIDs |-> 0]
  /\ sess = [s \in SIDs |-> NoSession]
  /\ view = [s \in SIDs |-> NoView]
  /\ rx = RxIdle
  /\ reaper = [pc |-> "wait", toRemove |-> {}, nextTick |-> CleanupIntervalSec]
  /\ out = <<>>
  /\ ret = NoRet
  /\ firstData = [s \in SIDs |-> NoPn]
  /\ pq \in {NewPriorityQueue(mode) : mode \in PriorityModes}
  /\ nowMs = 0
  /\ pqRet = NoPqRet
  /\ InitSide
  /\ pure \in {[NoPure EXCEPT !.op = "Data", !.arg = Buf(0, n)] :
                 n \in ClassifySizes}

\* Configs as the settings give them: each field below, at, inside and
\* above its range, and at the ends of uint32
RawConfigs ==
  {[MTU |-> mtu, MaxStreams |-> ms, ConnectionIdLength |-> cid,
    EnablePadding |-> ep, PaddingMinSize |-> pad[1], PaddingMaxSize |-> pad[2],
    HandshakeTimeout |-> ht, KeepAliveInterval |-> U32(15)] :
     mtu \in {U32(0), U32(575), U32(576), U32(1400), U32(1500), U32(1501),
              U32Max},
     ms \in {U32(0), U32(1), U32(256), U32(257)},
     cid \in {U32(0), U32(3), U32(4), U32(20), U32(21), [hi |-> 1, lo |-> 8]},
     ep \in BOOLEAN,
     pad \in {<<U32(0), U32(0)>>, <<U32(40), U32(200)>>, <<U32(41), U32(40)>>,
              <<U32Max, U32(0)>>, <<U32(7), U32Max>>,
              <<[hi |-> 1, lo |-> 0], U32(Limb - 1)>>},
     ht \in {U32(0), U32(1), U32Max}}

\* A Config that has not been validated
InitConfig ==
  /\ InitWith(Configs)
  /\ cfg.ConnectionIdLength = 20
  /\ pure \in {[NoPure EXCEPT !.op = "Config", !.arg = c,
                               !.val = [n |-> 0, prev |-> c, err |-> "nil",
                                        maxPayload |-> U32(0)]] :
                 c \in RawConfigs}

\* uint64 values around 2^6, 2^14, 2^30 and 2^62, and the ends of the range
VarintValues ==
  {U64(n) : n \in {0, 1, 62, 63, 64, 65, 255, 256, 16382, 16383, 16384, 16385,
                   65535, 65536, 16777215, 16777216, 1073741822, 1073741823,
                   1073741824, 2147483647}}
    \cup {<<0, 0, 0, 0, 128, 0, 0, 0>>, <<0, 0, 0, 0, 255, 255, 255, 255>>,
          <<0, 0, 0, 1, 0, 0, 0, 0>>, <<0, 0, 1, 2, 3, 4, 5, 6>>,
          <<32, 0, 0, 0, 0, 0, 0, 0>>,
          <<63, 255, 255, 255, 255, 255, 255, 255>>,
          <<64, 0, 0, 0, 0, 0, 0, 0>>,
          <<255, 255, 255, 255, 255, 255, 255, 255>>}

\* Buffers that end before the varint does
ShortBuffers ==
  UNION {{SubSeq(encodeQUICVarint(v), 1, k) :
            k \in 0 .. (Len(encodeQUICVarint(v)) - 1)} : v \in VarintValues}

\* A value to encode, or a buffer to decode
InitVarint ==
  /\ InitWith(Configs)
  /\ cfg.ConnectionIdLength = 20
  /\ pure \in {[NoPure EXCEPT !.op = "Value", !.arg = v] : v \in VarintValues}
             \cup {[NoPure EXCEPT !.op = "Buffer", !.data = d] :
                     d \in ShortBuffers}

\* A datagram to decode, or a Packet to encode
InitDecode ==
  /\ InitWith(CodecConfigs)
  /\ pure \in {[NoPure EXCEPT !.op = "Datagram", !.data = d] :
                 d \in DecodeInputs(cfg)}
             \cup {[NoPure EXCEPT !.op = "Packet", !.p = p] :
                     p \in MismatchedPackets(cfg)}


(***************************************************************************)
(* What the client puts on the wire (dialer): the server's input alphabet. *)
(***************************************************************************)
\* performHandshake: the ClientHello
ClientHello(connID, paddingSize) ==
  Marshal(NewHandshakePacket(connID, U32(0),
                             HandshakePayload(ClientKeyPair.PublicKey)),
          cfg, paddingSize)

\* performHandshake: the keys the client derives from a ServerHello
ClientKeys(serverPublic, psk) ==
  DeriveSessionKeys(ComputeSharedSecret(ClientKeyPair.PrivateKey, serverPublic),
                    psk, TRUE)

\* GameTunnelClientConn.Write: one encrypted chunk
ClientData(connID, keys, pktNum, chunk, paddingSize) ==
  LET tempPkt == NewDataPacket(connID, pktNum, NoPayload, cfg.EnablePadding)
      ad == AdditionalData(EncodeFlags(tempPkt), FakeQUICVersion, connID)
      ciphertext == Encrypt(keys, chunk, pktNum, ad)
  IN  Marshal(NewDataPacket(connID, pktNum, ciphertext, cfg.EnablePadding),
              cfg, paddingSize)

\* GameTunnelClientConn.maybeKeepAlive
ClientKeepAlive(connID, pktNum, paddingSize) ==
  Marshal(NewKeepAlivePacket(connID, pktNum), cfg, paddingSize)

\* GameTunnelClientConn.Close: the Control-Close
ClientClose(connID, pktNum) ==
  Marshal(NewControlPacket(connID, pktNum, ControlPayload(<<0>>)), cfg, 0)

(***************************************************************************)
(* Session.                                                                *)
(***************************************************************************)
SessionClose(s) ==
  IF s.closed = 0
    THEN [s EXCEPT !.closed = 1, !.State = SessionState_CLOSED,
                   !.chanClosed = @ + 1]
    ELSE s

\* A push that takes the record whatever the queue holds
PushInboundNoCap(s, data) ==
  IF s.closed = 1 THEN [s |-> s, err |-> "session closed"]
  ELSE [s |-> [s EXCEPT !.inbound = Append(@, data)], err |-> "nil"]

\* Session.PushInbound: the session after the push, and the error
PushInbound(s, data) ==
  IF s.closed = 1 THEN [s |-> s, err |-> "session closed"]
  ELSE IF Len(s.inbound) < InboundCap
    THEN [s |-> [s EXCEPT !.inbound = Append(@, data)], err |-> "nil"]
    ELSE [s |-> s, err |-> "inbound buffer full"]

(***************************************************************************)
(* Hub: sending.                                                           *)
(***************************************************************************)
Sent(sid, to, d) == [sid |-> sid, to |-> to, d |-> d, run |-> U32(1)]

\* A send assigns the next number only while the counter is in the explored
\* windows: just after creation, and just below 2^32.
PnWindow(p) ==
  \/ p.hi = 0 /\ p.lo < MaxPn
  \/ p.hi = Limb - 1 /\ p.lo >= Limb - MaxPn

\* sendServerHello: the session with its counter advanced, and the datagram
sendServerHello(s, keyPair, paddingSize) ==
  LET pktNum == AddUint32(s.SendPacketNum)
      pkt == NewHandshakePacket(s.ID, pktNum, HandshakePayload(keyPair.PublicKey))
  IN  [s |-> [s EXCEPT !.SendPacketNum = pktNum],
       d |-> Marshal(pkt, cfg, paddingSize), to |-> s.RemoteAddr]

\* handleKeepAlive: the empty KeepAlive bounced back
keepAliveResponse(s, paddingSize) ==
  LET pktNum == AddUint32(s.SendPacketNum)
  IN  [s |-> [s EXCEPT !.SendPacketNum = pktNum],
       d |-> Marshal(NewKeepAlivePacket(s.ID, pktNum), cfg, paddingSize),
       to |-> s.RemoteAddr]

\* handleControlPacket, case 0x01: the Pong
pongResponse(s) ==
  LET pktNum == AddUint32(s.SendPacketNum)
  IN  [s |-> [s EXCEPT !.SendPacketNum = pktNum],
       d |-> Marshal(NewControlPacket(s.ID, pktNum, ControlPayload(<<2>>)), cfg, 0),
       to |-> s.RemoteAddr]

\* SendToSession: error, or the session advanced and the Data datagram
SendToSession(s, payload, paddingSize) ==
  IF s.State # SessionState_ACTIVE
    THEN [err |-> "session not active", s |-> s, d |-> NoPayload, to |-> 0]
    ELSE LET pktNum == AddUint32(s.SendPacketNum)
             tempPkt == NewDataPacket(s.ID, pktNum, NoPayload, cfg.EnablePadding)
             ad == AdditionalData(EncodeFlags(tempPkt), FakeQUICVersion, s.ID)
             ciphertext == Encrypt(s.Keys, payload, pktNum, ad)
             pkt == NewDataPacket(s.ID, pktNum, ciphertext, cfg.EnablePadding)
         IN  [err |-> "nil", s |-> [s EXCEPT !.SendPacketNum = pktNum],
              d |-> Marshal(pkt, cfg, paddingSize), to |-> s.RemoteAddr]

\* RemoveSession that closes the session and leaves the table entry
RemoveSessionKeepEntry(ss, tbl, h, connID) ==
  IF tbl[connID] # 0
    THEN [sess |-> [ss EXCEPT ![tbl[connID]] = SessionClose(@)],
          sessions |-> tbl,
          hub |-> [h EXCEPT !.activeSessions = @ - 1]]
    ELSE [sess |-> ss, sessions |-> tbl, hub |-> h]

\* RemoveSession (and the reaper's removal of one key): sessions, table, counters
RemoveSession(ss, tbl, h, connID) ==
  IF tbl[connID] # 0
    THEN [sess |-> [ss EXCEPT ![tbl[connID]] = SessionClose(@)],
          sessions |-> [tbl EXCEPT ![connID] = 0],
          hub |-> [h EXCEPT !.activeSessions = @ - 1]]
    ELSE [sess |-> ss, sessions |-> tbl, hub |-> h]


(***************************************************************************)
(* Hub.RoutePacket and its handlers.  The receive loop calls it for every  *)
(* datagram; a decrypted payload is pushed by the loop in its next step.   *)
(***************************************************************************)
NumAllocated == Cardinality({s \in SIDs : sess[s].alloc})

\* Padding sizes Marshal can draw for a padded packet under cfg.
PaddedSizes == PaddingSizes([HasPadding |-> TRUE], cfg)

DataSizes == PaddingSizes([HasPadding |-> cfg.EnablePadding], cfg)

Reject(err) ==
  /\ ret' = Ret("RoutePacket", 0, 0, err)
  /\ out' = <<>>
  /\ UNCHANGED <<hub, sessions, sess, view, rx, firstData>>

\* An error returned after the session lookup: the session keeps the remote
\* address and the timestamp RoutePacket has just written.
RejectAfterUpdate(sid, s1, err) ==
  /\ ret' = Ret("RoutePacket", 0, 0, err)
  /\ out' = <<>>
  /\ sess' = [sess EXCEPT ![sid] = s1]
  /\ UNCHANGED <<hub, sessions, view, rx, firstData>>

handleNewHandshake(data, connID, remoteAddr) ==
  IF ~UnmarshalOk(data, cfg) THEN Reject("unmarshal handshake")
  ELSE IF data.payload.kind # "hs" \/ data.payload.size < HandshakePayloadSize
    THEN Reject("unmarshal handshake payload")
  ELSE IF ComputeSharedSecretIsZero(ServerKeyPair(NumAllocated + 1).PrivateKey,
                                    data.payload.pub)
    THEN Reject("compute shared secret")
  ELSE \E paddingSize \in PaddedSizes :
    LET sid == NumAllocated + 1
        serverKeyPair == ServerKeyPair(sid)
        sharedSecret == ComputeSharedSecret(serverKeyPair.PrivateKey,
                                            data.payload.pub)
        sessionKeys == DeriveSessionKeys(sharedSecret, cfg.Key, FALSE)
        session == [alloc |-> TRUE, ID |-> connID,
                    State |-> SessionState_ACTIVE, RemoteAddr |-> remoteAddr,
                    Keys |-> sessionKeys, LocalKeyPair |-> serverKeyPair,
                    SendPacketNum |-> U32(0), LastActiveAt |-> now,
                    inbound |-> <<>>, closed |-> 0,
                    chanClosed |-> 0]
        hello == sendServerHello(session, serverKeyPair, paddingSize)
    IN  /\ sessions' = [sessions EXCEPT ![connID] = sid]
        /\ hub' = [hub EXCEPT !.activeSessions = @ + 1, !.totalSessions = @ + 1]
        /\ sess' = [sess EXCEPT ![sid] = hello.s]
        /\ out' = <<Sent(sid, hello.to, hello.d)>>
        /\ UNCHANGED firstData
        /\ view' = [view EXCEPT ![sid] = newGameTunnelConn(hello.s)]
        /\ ret' = Ret("RoutePacket", sid, 0, "nil")
        /\ UNCHANGED rx

\* handleNewHandshake when the write of the ServerHello to the socket fails:
\* the session is registered and counted before the send, the callback is
\* not reached
handleNewHandshakeSendError(data, connID, remoteAddr) ==
  /\ UnmarshalOk(data, cfg)
  /\ data.payload.kind = "hs" /\ data.payload.size >= HandshakePayloadSize
  /\ ~ComputeSharedSecretIsZero(ServerKeyPair(NumAllocated + 1).PrivateKey,
                                data.payload.pub)
  /\ LET sid == NumAllocated + 1
         serverKeyPair == ServerKeyPair(sid)
         sharedSecret == ComputeSharedSecret(serverKeyPair.PrivateKey,
                                             data.payload.pub)
         sessionKeys == DeriveSessionKeys(sharedSecret, cfg.Key, FALSE)
         session == [alloc |-> TRUE, ID |-> connID,
                     State |-> SessionState_ACTIVE, RemoteAddr |-> remoteAddr,
                     Keys |-> sessionKeys, LocalKeyPair |-> serverKeyPair,
                     SendPacketNum |-> U32(0), LastActiveAt |-> now,
                     inbound |-> <<>>, closed |-> 0,
                     chanClosed |-> 0]
         hello == sendServerHello(session, serverKeyPair, 0)
     IN  /\ sessions' = [sessions EXCEPT ![connID] = sid]
         /\ hub' = [hub EXCEPT !.activeSessions = @ + 1, !.totalSessions = @ + 1]
         /\ sess' = [sess EXCEPT ![sid] = hello.s]
         /\ out' = <<>>
         /\ ret' = Ret("RoutePacket", 0, 0, "send server hello")
         /\ UNCHANGED <<view, rx, firstData>>

\* A Handshake on a known connection ID handled as a new one
handleExistingHandshakeAsNew(sid, s1, data) ==
  /\ NumAllocated < MaxSessions
  /\ handleNewHandshake(data, s1.ID, s1.RemoteAddr)

handleExistingHandshake(sid, s1, data) ==
  IF s1.LocalKeyPair # NoKeyPair
    THEN \E paddingSize \in PaddedSizes :
         LET hello == sendServerHello(s1, s1.LocalKeyPair, paddingSize)
         IN  /\ sess' = [sess EXCEPT ![sid] = hello.s]
             /\ out' = <<Sent(sid, hello.to, hello.d)>>
        /\ UNCHANGED firstData
             /\ ret' = Ret("RoutePacket", sid, 0, "nil")
             /\ UNCHANGED <<hub, sessions, view, rx>>
    ELSE /\ sess' = [sess EXCEPT ![sid] = s1]
         /\ out' = <<>>
         /\ ret' = Ret("RoutePacket", sid, 0, "nil")
         /\ UNCHANGED <<hub, sessions, view, rx, firstData>>

\* A Data packet is routed only while the inbound queue is in the explored
\* ranges: nearly empty, and nearly full or full.
QueueWindow(n) == n < MaxQueue \/ n >= InboundCap - MaxQueue

handleDataPacket(sid, s1, data) ==
  IF s1.State # SessionState_ACTIVE
    THEN RejectAfterUpdate(sid, s1, "session not active")
  ELSE IF ~UnmarshalOk(data, cfg)
    THEN RejectAfterUpdate(sid, s1, "unmarshal data packet")
  ELSE IF ~DecryptOk(s1.Keys, data.payload, data.pn,
                     AdditionalData(data.flags, data.version, data.cid))
    THEN RejectAfterUpdate(sid, s1, "decrypt")
  ELSE
    /\ QueueWindow(Len(s1.inbound))
    /\ sess' = [sess EXCEPT ![sid] = s1]
    /\ rx' = IF data.payload.pt.size > 0
               THEN [pc |-> "push", sid |-> sid, plaintext |-> data.payload.pt]
               ELSE rx
    /\ out' = <<>>
    /\ ret' = Ret("RoutePacket", sid, data.payload.pt.size, "nil")
    /\ UNCHANGED <<hub, sessions, view, firstData>>

handleKeepAlive(sid, s1, data) ==
  \E paddingSize \in PaddedSizes :
  LET reply == keepAliveResponse(s1, paddingSize)
  IN  /\ sess' = [sess EXCEPT ![sid] = reply.s]
      /\ out' = <<Sent(sid, reply.to, reply.d)>>
        /\ UNCHANGED firstData
      /\ ret' = Ret("RoutePacket", sid, 0, "nil")
      /\ UNCHANGED <<hub, sessions, view, rx>>

handleControlPacket(sid, s1, data) ==
  IF ~UnmarshalOk(data, cfg)
    THEN RejectAfterUpdate(sid, s1, "unmarshal control packet")
  ELSE IF data.payload.kind # "ctl" \/ data.payload.size = 0
    THEN /\ sess' = [sess EXCEPT ![sid] = s1]
         /\ out' = <<>>
         /\ ret' = Ret("RoutePacket", sid, 0, "nil")
         /\ UNCHANGED <<hub, sessions, view, rx, firstData>>
  ELSE IF data.payload.bytes[1] = 0
    THEN LET r == RemoveSession([sess EXCEPT ![sid] = s1], sessions, hub, s1.ID)
         IN  /\ sess' = r.sess
             /\ sessions' = r.sessions
             /\ hub' = r.hub
             /\ out' = <<>>
             /\ ret' = Ret("RoutePacket", sid, 0, "nil")
             /\ UNCHANGED <<view, rx, firstData>>
  ELSE IF data.payload.bytes[1] = 1
    THEN LET reply == pongResponse(s1)
         IN  /\ sess' = [sess EXCEPT ![sid] = reply.s]
             /\ out' = <<Sent(sid, reply.to, reply.d)>>
        /\ UNCHANGED firstData
             /\ ret' = Ret("RoutePacket", sid, 0, "nil")
             /\ UNCHANGED <<hub, sessions, view, rx>>
  ELSE /\ sess' = [sess EXCEPT ![sid] = s1]
       /\ out' = <<>>
       /\ ret' = Ret("RoutePacket", sid, 0, "nil")
       /\ UNCHANGED <<hub, sessions, view, rx, firstData>>

\* Whether the handler for this datagram sends a reply numbered by the session.
Replies(data) ==
  LET t == FlagsType(data.flags)
  IN  \/ t = PacketType_HANDSHAKE
      \/ t = PacketType_KEEPALIVE
      \/ t = PacketType_CONTROL /\ data.payload.kind = "ctl"
           /\ data.payload.size > 0 /\ data.payload.bytes[1] = 1

RoutePacketNeverTooShort(data) == FALSE

\* RoutePacket: the datagram is shorter than MinPacketSize
RoutePacketTooShort(data) == data.size < MinPacketSize

\* The session after RoutePacket's update of a found session, address kept
TouchSessionKeepRemote(s, remoteAddr) == [s EXCEPT !.LastActiveAt = now]

\* The session after RoutePacket's update of a found session
TouchSession(s, remoteAddr) ==
  [s EXCEPT !.RemoteAddr = remoteAddr, !.LastActiveAt = now]

RoutePacket(data, remoteAddr) ==
  /\ rx.pc = "read"
  /\ hub.closed = 0
  /\ UNCHANGED <<apart, cfg, now, reaper>>
  /\ IF RoutePacketTooShort(data) THEN Reject("packet too short")
     ELSE IF ~IsQUICLike(data.flags) THEN Reject("not a GameTunnel packet")
     ELSE
       LET connID == data.cid
           pktType == FlagsType(data.flags)
           sid == sessions[connID]
       IN  IF sid = 0
             THEN IF pktType = PacketType_HANDSHAKE
                    THEN /\ NumAllocated < MaxSessions
                         /\ handleNewHandshake(data, connID, remoteAddr)
                    ELSE Reject("unknown connection ID")
             ELSE
               LET s1 == TouchSession(sess[sid], remoteAddr)
               IN  /\ Replies(data) => PnWindow(s1.SendPacketNum)
                   /\ CASE pktType = PacketType_HANDSHAKE ->
                             handleExistingHandshake(sid, s1, data)
                        [] pktType = PacketType_DATA ->
                             handleDataPacket(sid, s1, data)
                        [] pktType = PacketType_KEEPALIVE ->
                             handleKeepAlive(sid, s1, data)
                        [] pktType = PacketType_CONTROL ->
                             handleControlPacket(sid, s1, data)

\* RoutePacket of a Handshake on an unknown connection ID while the socket
\* refuses the write of the ServerHello
RoutePacketSendError(data, remoteAddr) ==
  /\ rx.pc = "read"
  /\ hub.closed = 0
  /\ UNCHANGED <<apart, cfg, now, reaper>>
  /\ ~RoutePacketTooShort(data)
  /\ IsQUICLike(data.flags)
  /\ sessions[data.cid] = 0
  /\ FlagsType(data.flags) = PacketType_HANDSHAKE
  /\ NumAllocated < MaxSessions
  /\ handleNewHandshakeSendError(data, data.cid, remoteAddr)

\* Listener.receiveLoop: the push of the payload RoutePacket returned
ReceivePush ==
  /\ rx.pc = "push"
  /\ LET r == PushInbound(sess[rx.sid], rx.plaintext)
     IN  /\ sess' = [sess EXCEPT ![rx.sid] = r.s]
         /\ ret' = Ret("PushInbound", rx.sid, 0, r.err)
  /\ rx' = RxIdle
  /\ out' = <<>>
  /\ UNCHANGED <<apart, cfg, now, hub, sessions, view, reaper, firstData>>

\* Session.PushInbound step by step, for the goroutines that run beside the
\* receive loop: the load of s.closed
PushInboundCheck ==
  /\ rx.pc = "push"
  /\ IF sess[rx.sid].closed = 1
       THEN /\ rx' = RxIdle
            /\ ret' = Ret("PushInbound", rx.sid, 0, "session closed")
       ELSE /\ rx' = [rx EXCEPT !.pc = "send"]
            /\ ret' = NoRet
  /\ out' = <<>>
  /\ UNCHANGED <<apart, cfg, now, hub, sessions, sess, view, reaper, firstData>>

\* Session.PushInbound, the select: a send on a closed channel panics, a
\* send on a full one takes the default branch
PushInboundSend ==
  /\ rx.pc = "send"
  /\ LET s == sess[rx.sid]
     IN  IF s.chanClosed > 0
           THEN /\ rx' = [rx EXCEPT !.pc = "panic"]
                /\ ret' = Ret("PushInbound", rx.sid, 0,
                              "panic: send on closed channel")
                /\ UNCHANGED sess
         ELSE IF Len(s.inbound) < InboundCap
           THEN /\ rx' = RxIdle
                /\ sess' = [sess EXCEPT ![rx.sid].inbound =
                              Append(@, rx.plaintext)]
                /\ ret' = Ret("PushInbound", rx.sid, 0, "nil")
         ELSE /\ rx' = RxIdle
              /\ ret' = Ret("PushInbound", rx.sid, 0, "inbound buffer full")
              /\ UNCHANGED sess
  /\ out' = <<>>
  /\ UNCHANGED <<apart, cfg, now, hub, sessions, view, reaper, firstData>>

\* InboundCap - 2 * MaxQueue: the records that take the queue from the end of
\* the range near empty to the start of the range near full
BulkRecords == InboundCap - 2 * MaxQueue

\* BulkRecords consecutive turns of the receive loop on the same authentic
\* Data datagram (RoutePacket, then PushInbound) with no Read in between, as
\* one step
ReceiveBulk(data, remoteAddr) ==
  LET sid == sessions[data.cid]
      s1 == TouchSession(sess[sid], remoteAddr)
  IN  /\ rx.pc = "read"
      /\ hub.closed = 0
      /\ ~RoutePacketTooShort(data) /\ IsQUICLike(data.flags)
      /\ FlagsType(data.flags) = PacketType_DATA
      /\ sid # 0
      /\ s1.State = SessionState_ACTIVE /\ s1.closed = 0
      /\ UnmarshalOk(data, cfg)
      /\ DecryptOk(s1.Keys, data.payload, data.pn,
                   AdditionalData(data.flags, data.version, data.cid))
      /\ data.payload.pt.size > 0
      /\ Len(s1.inbound) = MaxQueue
      /\ sess' = [sess EXCEPT ![sid] =
                    [s1 EXCEPT !.inbound =
                       @ \o [i \in 1..BulkRecords |-> data.payload.pt]]]
      /\ ret' = Ret("PushInbound", sid, 0, "nil")
      /\ out' = <<>>
      /\ UNCHANGED <<apart, cfg, now, hub, sessions, view, rx, reaper, firstData>>


(***************************************************************************)
(* The datagrams the socket can deliver to the receive loop.               *)
(***************************************************************************)
\* Plaintext records a client writes
Chunks == {Buf(0, 2)}

\* The session keys of a client that completed the handshake with the n-th
\* server key pair, under the pre-shared key psk
PeerKeys(n, psk) == ClientKeys(ServerKeyPair(n).PublicKey, psk)

\* Records of different lengths and contents, for the order of a stream
StreamChunks == {Buf(0, 2), Buf(10, 3)}

StreamData(connID) ==
  { ClientData(connID, PeerKeys(n, cfg.Key), U32(1), chunk,
               CHOOSE x \in DataSizes : TRUE) :
      n \in SIDs, chunk \in StreamChunks }

HonestData(connID) ==
  { ClientData(connID, PeerKeys(n, cfg.Key), U32(1), chunk, paddingSize) :
      n \in SIDs, chunk \in Chunks, paddingSize \in DataSizes }

\* Data that must fail authentication under the session that holds connID:
\* sealed under another pre-shared key, altered in flight, carried under
\* another packet number, or under an altered flags byte.
ForgedData(connID) ==
  LET good == ClientData(connID, PeerKeys(1, cfg.Key), U32(1), Buf(0, 2),
                         CHOOSE x \in DataSizes : TRUE)
  IN  { ClientData(connID, PeerKeys(n, cfg.Key + 1), U32(1), Buf(0, 2),
                   CHOOSE x \in DataSizes : TRUE) : n \in SIDs }
        \cup { [good EXCEPT !.payload.intact = FALSE],
               [good EXCEPT !.pn = U32(2)],
               [good EXCEPT !.flags = IF FlagsPadding(@) THEN @ - FlagPaddingBit
                                                          ELSE @ + FlagPaddingBit] }

ControlCodes == {<<>>, <<0>>, <<1>>, <<2>>}

\* Control packets as the client encodes them (no padding)
ClientControl(connID) ==
  { Marshal(NewControlPacket(connID, U32(2), ControlPayload(code)), cfg, 0) :
      code \in ControlCodes }

\* Datagrams that are not GameTunnel packets or carry another version
Junk(connID) ==
  LET good == ClientData(connID, PeerKeys(1, cfg.Key), U32(1), Buf(0, 2),
                         CHOOSE x \in DataSizes : TRUE)
  IN  { [good EXCEPT !.flags = FlagFixedBit], [good EXCEPT !.version = 2] }

\* The ClientHello under every padding Marshal can draw
Hellos(connID) ==
  { ClientHello(connID, paddingSize) : paddingSize \in PaddedSizes }

\* Handshakes the server cannot complete: another version, a payload cut
\* short, a public key of small order
BadHellos(connID) ==
  LET good == ClientHello(connID, CHOOSE x \in PaddedSizes : TRUE)
  IN  { [good EXCEPT !.version = 2],
        [good EXCEPT !.payload.size = HandshakePayloadSize - 1],
        [good EXCEPT !.payload.pub = 0] }

\* The client's KeepAlive under every padding Marshal can draw
KeepAlives(connID) ==
  { ClientKeepAlive(connID, U32(2), paddingSize) : paddingSize \in PaddedSizes }

DatagramsOf(connIDs) ==
  UNION { Hellos(connID) \cup HonestData(connID) \cup ForgedData(connID)
            \cup KeepAlives(connID) \cup ClientControl(connID)
            \cup Junk(connID) : connID \in connIDs }

Datagrams == DatagramsOf(CIDs)

(***************************************************************************)
(* GameTunnelConn: the session view of the host.                           *)
(***************************************************************************)
ViewReturn(sid, v, op, n, err) ==
  /\ view' = [view EXCEPT ![sid] = v]
  /\ ret' = Ret(op, sid, n, err)

\* Read returns after copy(b, src) copied the k bytes of src from offset from
ReadReturn(sid, v, src, from, k) ==
  /\ view' = [view EXCEPT ![sid] = v]
  /\ ret' = [Ret("Read", sid, k, "nil") EXCEPT !.b = Slice(src, from, from + k)]

\* Read, the part after the channel receive yielded data: the remainder of a
\* record larger than the caller's buffer is forgotten
ReadDeliverDropRest(sid, v, data, n) ==
  ReadReturn(sid, [v EXCEPT !.reading = 0], data, 0, Min(n, data.size))

ReadDeliver(sid, v, data, n) ==
  LET k == Min(n, data.size)
  IN  ReadReturn(sid, IF k < data.size
                        THEN [v EXCEPT !.readBuf = data, !.readOffset = k,
                                       !.reading = 0]
                        ELSE [v EXCEPT !.reading = 0],
                 data, 0, k)

\* GameTunnelConn.Read with a buffer of n bytes, up to the channel receive
ViewRead(sid, n) ==
  LET v == view[sid]
      s == sess[sid]
  IN  /\ v.made /\ v.reading = 0
      /\ out' = <<>>
      /\ UNCHANGED <<apart, cfg, now, hub, sessions, rx, reaper, firstData>>
      /\ IF v.readOffset < v.readBuf.size
           THEN LET k == Min(n, v.readBuf.size - v.readOffset)
                    off == v.readOffset + k
                IN  /\ ReadReturn(sid,
                         IF off >= v.readBuf.size
                           THEN [v EXCEPT !.readBuf = NoBuf, !.readOffset = 0]
                           ELSE [v EXCEPT !.readOffset = off],
                         v.readBuf, v.readOffset, k)
                    /\ UNCHANGED sess
         ELSE IF v.closed = 1
           THEN ViewReturn(sid, v, "Read", 0, "EOF") /\ UNCHANGED sess
         ELSE IF s.inbound # <<>>
           THEN /\ ReadDeliver(sid, v, Head(s.inbound), n)
                /\ sess' = [sess EXCEPT ![sid].inbound = Tail(@)]
         ELSE IF s.chanClosed > 0
           THEN ViewReturn(sid, v, "Read", 0, "EOF") /\ UNCHANGED sess
         ELSE \* blocks on the empty channel, holding the view mutex
              /\ view' = [view EXCEPT ![sid].reading = n]
              /\ ret' = NoRet
              /\ UNCHANGED sess

\* A Read blocked on the channel is woken by a record or by the close
ViewReadWake(sid) ==
  LET v == view[sid]
      s == sess[sid]
  IN  /\ v.made /\ v.reading > 0
      /\ s.inbound # <<>> \/ s.chanClosed > 0
      /\ out' = <<>>
      /\ UNCHANGED <<apart, cfg, now, hub, sessions, rx, reaper, firstData>>
      /\ IF s.inbound # <<>>
           THEN /\ ReadDeliver(sid, v, Head(s.inbound), v.reading)
                /\ sess' = [sess EXCEPT ![sid].inbound = Tail(@)]
           ELSE /\ ViewReturn(sid, [v EXCEPT !.reading = 0], "Read", 0, "EOF")
                /\ UNCHANGED sess

\* Buffer lengths a host writes: empty, one byte, one byte more than a chunk
WriteLens == {0, 1, GetMaxPayloadSize(cfg) + 1}

\* Write's loop body: one chunk through SendToSession
WriteChunk(sid, v, paddingSize) ==
  LET maxPayload == GetMaxPayloadSize(cfg)
      end == Min(v.totalWritten + maxPayload, v.b.size)
      chunk == Slice(v.b, v.totalWritten, end)
      r == SendToSession(sess[sid], chunk, paddingSize)
  IN  IF r.err # "nil"
        THEN /\ ViewReturn(sid, [v EXCEPT !.writing = FALSE, !.b = NoBuf,
                                          !.totalWritten = 0],
                           "Write", v.totalWritten, r.err)
             /\ out' = <<>>
             /\ UNCHANGED <<sess, firstData>>
        ELSE /\ PnWindow(sess[sid].SendPacketNum)
             /\ sess' = [sess EXCEPT ![sid] = r.s]
             /\ out' = <<Sent(sid, r.to, r.d)>>
             /\ firstData' = [firstData EXCEPT
                                ![sid] = IF @ = NoPn THEN r.d.pn ELSE @]
             /\ IF end < v.b.size
                  THEN /\ view' = [view EXCEPT ![sid] =
                                     [v EXCEPT !.writing = TRUE,
                                               !.totalWritten = end]]
                       /\ ret' = NoRet
                  ELSE ViewReturn(sid, [v EXCEPT !.writing = FALSE, !.b = NoBuf,
                                                 !.totalWritten = 0],
                                  "Write", end, "nil")

\* GameTunnelConn.Write of a buffer of n bytes, through its first chunk
ViewWrite(sid, n, paddingSize) ==
  LET v == view[sid]
  IN  /\ v.made /\ ~v.writing
      /\ UNCHANGED <<apart, cfg, now, hub, sessions, rx, reaper>>
      /\ IF v.closed = 1
           THEN /\ ViewReturn(sid, v, "Write", 0, "ErrClosedPipe")
                /\ out' = <<>>
                /\ UNCHANGED <<sess, firstData>>
         ELSE IF n = 0
           THEN /\ ViewReturn(sid, v, "Write", 0, "nil")
                /\ out' = <<>>
                /\ UNCHANGED <<sess, firstData>>
         ELSE WriteChunk(sid, [v EXCEPT !.b = Buf(0, n), !.totalWritten = 0],
                         paddingSize)

\* GameTunnelConn.Write, the next turn of its loop
ViewWriteNext(sid, paddingSize) ==
  /\ view[sid].made /\ view[sid].writing
  /\ UNCHANGED <<apart, cfg, now, hub, sessions, rx, reaper>>
  /\ WriteChunk(sid, view[sid], paddingSize)

\* Write's loop body when WriteToUDP fails in SendToSession: the number is
\* taken, nothing reaches the wire, and Write returns what it had written
WriteChunkSendError(sid, v) ==
  LET r == SendToSession(sess[sid], Buf(0, 1), 0)
  IN  /\ r.err = "nil"
      /\ PnWindow(sess[sid].SendPacketNum)
      /\ sess' = [sess EXCEPT ![sid] = r.s]
      /\ out' = <<>>
      /\ ViewReturn(sid, [v EXCEPT !.writing = FALSE, !.b = NoBuf,
                                   !.totalWritten = 0],
                    "Write", v.totalWritten, "send")
      /\ UNCHANGED firstData

\* GameTunnelConn.Write of n bytes whose first chunk meets a socket error
ViewWriteSendError(sid, n) ==
  LET v == view[sid]
  IN  /\ v.made /\ ~v.writing /\ v.closed = 0 /\ n > 0
      /\ UNCHANGED <<apart, cfg, now, hub, sessions, rx, reaper>>
      /\ WriteChunkSendError(sid, [v EXCEPT !.b = Buf(0, n), !.totalWritten = 0])

\* GameTunnelConn.Write, a later turn of its loop meeting a socket error
ViewWriteNextSendError(sid) ==
  /\ view[sid].made /\ view[sid].writing
  /\ UNCHANGED <<apart, cfg, now, hub, sessions, rx, reaper>>
  /\ WriteChunkSendError(sid, view[sid])

\* Caller buffer sizes of Read
ReadLens == {1}

\* 2^32 - 2 * MaxPn: the sends that take the counter from the end of the
\* window after creation to the start of the window below 2^32
BulkCount == [hi |-> Limb - 1, lo |-> Limb - 2 * MaxPn]

\* BulkCount consecutive one-byte Writes with no other step in between, as
\* one step: the datagram recorded is the first of the run.
ViewWriteBulk(sid, paddingSize) ==
  LET v == view[sid]
      s == sess[sid]
      r == SendToSession(s, Buf(0, 1), paddingSize)
  IN  /\ v.made /\ ~v.writing /\ v.closed = 0
      /\ s.SendPacketNum = U32(MaxPn)
      /\ r.err = "nil"
      /\ sess' = [sess EXCEPT ![sid].SendPacketNum = U32Add(@, BulkCount)]
      /\ out' = <<[Sent(sid, r.to, r.d) EXCEPT !.run = BulkCount]>>
      /\ firstData' = [firstData EXCEPT ![sid] = IF @ = NoPn THEN r.d.pn ELSE @]
      /\ ret' = Ret("Write", sid, 1, "nil")
      /\ UNCHANGED <<apart, cfg, now, hub, sessions, view, rx, reaper>>

\* GameTunnelConn.Close up to the Control-Close handed to the socket
ViewClose(sid) ==
  LET v == view[sid]
      s == sess[sid]
  IN  /\ v.made
      /\ UNCHANGED <<apart, cfg, now, hub, sessions, rx, reaper, firstData>>
      /\ IF v.closed # 0
           THEN /\ out' = <<>>
                /\ ret' = Ret("Close", sid, 0, "nil")
                /\ UNCHANGED <<sess, view>>
           ELSE LET pktNum == AddUint32(s.SendPacketNum)
                    closePkt == NewControlPacket(s.ID, pktNum, ControlPayload(<<0>>))
                IN  /\ PnWindow(s.SendPacketNum)
                    /\ view' = [view EXCEPT ![sid] =
                                  [v EXCEPT !.closed = 1, !.closing = TRUE,
                                            !.closeSent = @ + 1]]
                    /\ sess' = [sess EXCEPT ![sid].SendPacketNum = pktNum]
                    /\ out' = <<Sent(sid, s.RemoteAddr, Marshal(closePkt, cfg, 0))>>
                    /\ ret' = NoRet

\* GameTunnelConn.Close, the rest: hub.RemoveSession(session.ID)
ViewCloseRemove(sid) ==
  /\ view[sid].made /\ view[sid].closing
  /\ LET r == RemoveSession(sess, sessions, hub, sess[sid].ID)
     IN  /\ sess' = r.sess
         /\ sessions' = r.sessions
         /\ hub' = r.hub
  /\ view' = [view EXCEPT ![sid].closing = FALSE]
  /\ out' = <<>>
  /\ ret' = Ret("Close", sid, 0, "nil")
  /\ UNCHANGED <<apart, cfg, now, rx, reaper, firstData>>

(***************************************************************************)
(* The clock, Hub.cleanupLoop and Hub.Stop.                                *)
(***************************************************************************)
\* The clock advances; a due tick of the reaper is handled first.
TimePasses(limit) ==
  /\ now + TimeStep <= limit
  /\ rx.pc = "read"
  /\ reaper.pc = "done" \/ (reaper.pc = "wait" /\ now < reaper.nextTick)
  /\ now' = now + TimeStep
  /\ out' = <<>>
  /\ ret' = NoRet
  /\ UNCHANGED <<apart, cfg, hub, sessions, sess, view, rx, reaper, firstData>>

\* cleanupLoop: the comparison that selects a session
CleanupExpired(lastActiveAt, t) == t - lastActiveAt > hub.sessionTimeout

\* cleanupLoop on a tick: the exit after Stop, or the scan under the read lock
ReaperScan ==
  /\ reaper.pc = "wait"
  /\ now >= reaper.nextTick
  /\ IF hub.closed = 1
       THEN reaper' = [reaper EXCEPT !.pc = "done"]
       ELSE LET toRemove == {key \in CIDs :
                               /\ sessions[key] # 0
                               /\ CleanupExpired(sess[sessions[key]].LastActiveAt, now)}
            IN  reaper' = [pc |-> IF toRemove = {} THEN "wait" ELSE "remove",
                           toRemove |-> toRemove,
                           nextTick |-> reaper.nextTick + hub.cleanupInterval]
  /\ out' = <<>>
  /\ ret' = Ret("cleanupScan", 0, 0, "nil")
  /\ UNCHANGED <<apart, cfg, now, hub, sessions, sess, view, rx, firstData>>

\* cleanupLoop: the removal of one collected key under the write lock
ReaperRemove(key) ==
  /\ reaper.pc = "remove"
  /\ key \in reaper.toRemove
  /\ LET r == RemoveSession(sess, sessions, hub, key)
         sid == sessions[key]
     IN  /\ sess' = r.sess
         /\ sessions' = r.sessions
         /\ hub' = r.hub
         /\ ret' = Ret("cleanupRemove", sid, 0, "nil")
  /\ reaper' = [reaper EXCEPT !.toRemove = @ \ {key},
                              !.pc = IF reaper.toRemove = {key}
                                       THEN "wait" ELSE "remove"]
  /\ out' = <<>>
  /\ UNCHANGED <<apart, cfg, now, view, rx, firstData>>

\* Hub.Stop's loop: every session closed and deleted
StopSessions(ss, tbl) ==
  [sess |-> [sid \in SIDs |->
               IF \E key \in CIDs : tbl[key] = sid THEN SessionClose(ss[sid])
                                                   ELSE ss[sid]],
   sessions |-> [key \in CIDs |-> 0]]

\* Listener.Close: Hub.Stop, after which the socket is closed
HubStop ==
  /\ hub.closed = 0
  /\ rx.pc = "read"
  /\ LET r == StopSessions(sess, sessions)
     IN  /\ sess' = r.sess
         /\ sessions' = r.sessions
  /\ hub' = [hub EXCEPT !.closed = 1]
  /\ out' = <<>>
  /\ ret' = Ret("Stop", 0, 0, "nil")
  /\ UNCHANGED <<apart, cfg, now, view, rx, reaper, firstData>>

(***************************************************************************)
(* The codec applied to a Packet.                                          *)
(***************************************************************************)
\* p.Marshal(config): the padding size and the padding bytes are drawn
MarshalCall(paddingSize, seed) ==
  /\ pure.op = "Packet"
  /\ paddingSize \in PaddingSizes(pure.p, cfg)
  /\ LET padding == PatternBytes(seed, paddingSize)
         r == MarshalBytes(pure.p, cfg, padding)
     IN pure' = [pure EXCEPT !.op = "Marshal", !.padding = padding,
                             !.err = r.err, !.data = r.data]
  /\ UNCHANGED <<side, hubVars, pq, nowMs, pqRet>>

\* Unmarshal(data, connIDLen) on what Marshal returned
UnmarshalCall ==
  /\ pure.op \in {"Marshal", "Datagram"}
  /\ pure.err = "nil"
  /\ pure' = [pure EXCEPT !.op = "Unmarshal",
                          !.res = Unmarshal(pure.data, cfg.ConnectionIdLength)]
  /\ UNCHANGED <<side, hubVars, pq, nowMs, pqRet>>

\* obfs.Wrap(data) on what Marshal returned; rnd seeds the bytes drawn (the
\* SCID of rand.Read, the sequence number read off the clock)
WrapCall(seed, version) ==
  /\ pure.op = "Marshal"
  /\ pure.err = "nil"
  /\ pure' = [pure EXCEPT !.op = "Wrap",
                          !.wrap = Wrap(pure.mode, pure.data,
                                        PatternBytes(seed, 8), version)]
  /\ UNCHANGED <<side, hubVars, pq, nowMs, pqRet>>

\* obfs.Unwrap(data) on what Wrap returned
UnwrapCall ==
  /\ pure.op = "Wrap"
  /\ pure.wrap.err = "nil"
  /\ pure' = [pure EXCEPT !.op = "Unwrap",
                          !.unwrap = Unwrap(pure.mode, pure.wrap.data)]
  /\ UNCHANGED <<side, hubVars, pq, nowMs, pqRet>>

\* The tail of a send path (SendToSession, sendServerHello, the handlers'
\* replies, the client's Write, maybeKeepAlive and Close): what Marshal
\* returned is handed to the UDP socket; val is the datagram on the wire
WriteToUDPCall ==
  /\ pure.op = "Marshal"
  /\ pure.err = "nil"
  /\ pure' = [pure EXCEPT !.op = "WriteToUDP", !.val = pure.data]
  /\ UNCHANGED <<side, hubVars, pq, nowMs, pqRet>>

\* Listener.receiveLoop: the datagram read from the socket is copied and
\* passed to RoutePacket, which classifies and decodes it; arg is what
\* RoutePacket was given
ReceiveLoopCall ==
  /\ pure.op = "WriteToUDP"
  /\ pure' = [pure EXCEPT !.op = "RoutePacket", !.arg = pure.val,
                          !.res = Unmarshal(pure.val, cfg.ConnectionIdLength)]
  /\ UNCHANGED <<side, hubVars, pq, nowMs, pqRet>>

\* DeriveSessionKeys(sharedSecret, psk, isClient) by one side of the
\* connection; val keeps what each role obtained
DeriveSessionKeysCall(isClient) ==
  /\ pure.op \in {"Secret", "DeriveSessionKeys"}
  /\ LET role == IF isClient THEN "client" ELSE "server"
         keys == DeriveSessionKeys(pure.arg.sharedSecret, pure.arg.psk, isClient)
     IN /\ role \notin DOMAIN pure.val
        /\ pure' = [pure EXCEPT !.op = "DeriveSessionKeys",
                                !.val = IF pure.op = "Secret"
                                          THEN (role :> keys)
                                          ELSE pure.val @@ (role :> keys)]
  /\ UNCHANGED <<side, hubVars, pq, nowMs, pqRet>>

\* pq.classify(data)
ClassifyCall ==
  /\ pure.op = "Data"
  /\ pure' = [pure EXCEPT !.op = "classify", !.val = classify(pq, pure.arg)]
  /\ UNCHANGED <<side, hubVars, pq, nowMs, pqRet>>

\* config.Validate(), a first and a second time; prev is the Config the call
\* was made on
ValidateCall ==
  /\ pure.op \in {"Config", "Validate"}
  /\ pure.val.n < 2
  /\ LET r == Validate(pure.arg)
     IN pure' = [pure EXCEPT !.op = "Validate", !.arg = r.c,
                             !.val = [pure.val EXCEPT !.n = @ + 1,
                                                      !.prev = pure.arg,
                                                      !.err = r.err]]
  /\ UNCHANGED <<side, hubVars, pq, nowMs, pqRet>>

\* config.GetMaxPayloadSize() on a validated Config
GetMaxPayloadSizeCall ==
  /\ pure.op = "Validate"
  /\ pure' = [pure EXCEPT !.op = "GetMaxPayloadSize",
                          !.val = [pure.val EXCEPT
                                     !.maxPayload =
                                       GetMaxPayloadSizeUint32(pure.arg)]]
  /\ UNCHANGED <<side, hubVars, pq, nowMs, pqRet>>

\* encodeQUICVarint(value), written in front of the bytes that follow it in
\* the datagram
EncodeVarintCall(tail) ==
  /\ pure.op = "Value"
  /\ LET encoded == encodeQUICVarint(pure.arg)
     IN pure' = [pure EXCEPT !.op = "encodeQUICVarint",
                             !.data = encoded \o tail,
                             !.val = [encoded |-> encoded]]
  /\ UNCHANGED <<side, hubVars, pq, nowMs, pqRet>>

\* decodeQUICVarint(data)
DecodeVarintCall ==
  /\ pure.op \in {"encodeQUICVarint", "Buffer"}
  /\ pure' = [pure EXCEPT !.op = "decodeQUICVarint",
                          !.val = [encoded |-> IF pure.op = "Buffer" THEN <<>>
                                               ELSE pure.val.encoded,
                                   from |-> pure.op,
                                   res |-> decodeQUICVarint(pure.data)]]
  /\ UNCHANGED <<side, hubVars, pq, nowMs, pqRet>>

(***************************************************************************)
(* The scheduler's calls.  Each call runs to completion; the clock reads   *)
(* nowMs.                                                                  *)
(***************************************************************************)
\* The enqueue total of a level
Enqueued(q, level) ==
  CASE level = PriorityHigh -> q.enqueuedHigh
    [] level = PriorityMedium -> q.enqueuedMedium
    [] OTHER -> q.enqueuedLow

\* A burst that takes an empty level to its capacity
BurstCount(level) == QueueSize(level)

\* The enqueues that were not part of a burst
Singles(q) ==
  (q.enqueuedHigh % BurstCount(PriorityHigh))
    + (q.enqueuedMedium % BurstCount(PriorityMedium))
    + (q.enqueuedLow % BurstCount(PriorityLow))

\* The calls explored: a few single enqueues, a few refused ones
CallAllowed(q, level) ==
  /\ q.dropped < MaxDropped
  /\ HasRoom(q, level) => Singles(q) < MaxEnqueued

\* The next Dequeue takes a packet from a level that is at capacity
TakesFromFull(q, t) ==
  /\ Dequeue(q, t).pkt # NoPacket
  /\ ~HasRoom(q, Dequeue(q, t).pkt.Priority)

\* One payload of each size band, at the band's upper edge
SchedData ==
  {Buf(0, HighPriorityMaxSize), Buf(0, MediumPriorityMaxSize),
   Buf(0, MediumPriorityMaxSize + 1)}

\* The priorities a caller passes: the three levels and one out of range
SchedPriorities == 0 .. PriorityLevels

EnqueueCall(data) ==
  /\ CallAllowed(pq, classify(pq, data))
  /\ LET r == Enqueue(pq, data, nowMs)
     IN /\ pq' = r.pq
        /\ pqRet' = PqRet("Enqueue", r.ok,
                          PriorityPacket(data, classify(pq, data), nowMs))
  /\ UNCHANGED <<side, hubVars, nowMs, pure>>

EnqueueWithPriorityCall(data, priority) ==
  /\ CallAllowed(pq, Min(priority, PriorityLow))
  /\ LET r == EnqueueWithPriority(pq, data, priority, nowMs)
     IN /\ pq' = r.pq
        /\ pqRet' = PqRet("EnqueueWithPriority", r.ok,
                          PriorityPacket(data, Min(priority, PriorityLow), nowMs))
  /\ UNCHANGED <<side, hubVars, nowMs, pure>>

\* BurstCount(level) calls of EnqueueWithPriority within one millisecond
EnqueueBulk(data, level) ==
  /\ pq.queues[level] = <<>>
  /\ Enqueued(pq, level) < BurstCount(level)
  /\ LET pkt == PriorityPacket(data, level, nowMs)
         n == BurstCount(level)
     IN /\ pq' = [pq EXCEPT !.queues[level] = [i \in 1 .. n |-> pkt],
                            !.enqueuedHigh =
                               IF level = PriorityHigh THEN @ + n ELSE @,
                            !.enqueuedMedium =
                               IF level = PriorityMedium THEN @ + n ELSE @,
                            !.enqueuedLow =
                               IF level = PriorityLow THEN @ + n ELSE @]
        /\ pqRet' = PqRet("EnqueueWithPriority", TRUE, pkt)
  /\ UNCHANGED <<side, hubVars, nowMs, pure>>

DequeueCall ==
  /\ LET r == Dequeue(pq, nowMs)
     IN /\ pq' = r.pq
        /\ pqRet' = PqRet("Dequeue", r.pkt # NoPacket, r.pkt)
  /\ UNCHANGED <<side, hubVars, nowMs, pure>>

\* Dequeue from its first select to checkStarvation's receive: the High
\* channel was empty, the Low head is in the caller's hands and its age is read
DequeueTake ==
  /\ dq.pc = "idle"
  /\ pq.queues[PriorityHigh] = <<>>
  /\ pq.queues[PriorityLow] # <<>>
  /\ pq' = Receive(pq, PriorityLow)
  /\ dq' = [pc |-> "checkStarvation",
            pkt |-> Head(pq.queues[PriorityLow]),
            isStarving |-> nowMs - Head(pq.queues[PriorityLow]).EnqueuedAt
                             > pq.starvationTimeout]
  /\ UNCHANGED <<hubVars, nowMs, pqRet, pure, client, lk>>

\* Dequeue after checkStarvation has returned
DequeueAfter(q, isStarving) ==
  IF isStarving /\ q.queues[PriorityLow] # <<>>
    THEN [pq |-> Receive(q, PriorityLow), pkt |-> Head(q.queues[PriorityLow])]
  ELSE IF q.queues[PriorityMedium] # <<>>
    THEN [pq |-> Receive(q, PriorityMedium), pkt |-> Head(q.queues[PriorityMedium])]
  ELSE IF q.queues[PriorityLow] # <<>>
    THEN [pq |-> Receive(q, PriorityLow), pkt |-> Head(q.queues[PriorityLow])]
  ELSE [pq |-> q, pkt |-> NoPacket]

\* checkStarvation's second select, which sends the head back if the channel
\* has room and lets go of it otherwise, and the rest of Dequeue
DequeueReturn ==
  /\ dq.pc = "checkStarvation"
  /\ LET back == IF HasRoom(pq, PriorityLow)
                   THEN Send(pq, PriorityLow, dq.pkt)
                 ELSE pq
         r == DequeueAfter(back, dq.isStarving)
     IN /\ pq' = r.pq
        /\ pqRet' = PqRet("Dequeue", r.pkt # NoPacket, r.pkt)
  /\ dq' = NoDq
  /\ UNCHANGED <<hubVars, nowMs, pure, client, lk>>

\* A Dequeue that does not reach checkStarvation's receive
DequeueNoTake ==
  /\ dq.pc = "idle"
  /\ pq.queues[PriorityHigh] # <<>> \/ pq.queues[PriorityLow] = <<>>
  /\ DequeueCall

\* The monotonic clock advances
Tick(ms) ==
  /\ nowMs + ms <= MaxMs
  /\ nowMs' = nowMs + ms
  /\ UNCHANGED <<side, hubVars, pq, pqRet, pure>>

(***************************************************************************)
(* The client: performHandshake, Write, and the receive loop's read        *)
(* timeout.  Its socket is connected to the server from address 1.         *)
(***************************************************************************)
ClientAddr == CHOOSE a \in Addrs : TRUE

\* The receive loop's read deadline, seconds
ClientReadDeadlineSec == 1

\* performHandshake up to the write of the ClientHello
ClientDial(connID, paddingSize) ==
  /\ client.state = "new"
  /\ LET hello == ClientHello(connID, paddingSize)
     IN client' = [client EXCEPT !.state = "hello", !.ConnectionID = connID,
                                 !.wire = <<hello>>, !.lastSend = now,
                                 !.helloPn = hello.pn]
  /\ UNCHANGED <<hubVars, pq, nowMs, pqRet, pure, dq, lk>>

\* A ClientSession whose counter starts at 0
NewClientSessionFromZero(connID, sessionKeys) ==
  [ConnectionID |-> connID, Keys |-> sessionKeys, SendPacketNum |-> U32(0)]

\* The ClientSession performHandshake returns
NewClientSession(connID, sessionKeys) ==
  [ConnectionID |-> connID, Keys |-> sessionKeys, SendPacketNum |-> U32(1)]

\* performHandshake from the read of the ServerHello on
ClientHandshakeDone ==
  /\ client.state = "hello"
  /\ out # <<>>
  /\ out[1].to = ClientAddr
  /\ LET d == out[1].d
     IN IF /\ UnmarshalOk(d, cfg)
           /\ FlagsType(d.flags) = PacketType_HANDSHAKE
           /\ d.payload.kind = "hs"
           /\ d.payload.size >= HandshakePayloadSize
          THEN LET cs == NewClientSession(client.ConnectionID,
                                          ClientKeys(d.payload.pub, cfg.Key))
               IN client' = [client EXCEPT !.state = "ready",
                                           !.Keys = cs.Keys,
                                           !.SendPacketNum = cs.SendPacketNum,
                                           !.serverHelloPn = d.pn,
                                           !.wire = <<>>]
          ELSE client' = [client EXCEPT !.state = "failed", !.wire = <<>>]
  /\ UNCHANGED <<hubVars, pq, nowMs, pqRet, pure, dq, lk>>

\* GameTunnelClientConn.Write of n bytes that fit one chunk
ClientWrite(n, paddingSize) ==
  /\ client.state = "ready"
  /\ client.closed = 0
  /\ n <= GetMaxPayloadSize(cfg)
  /\ PnWindow(client.SendPacketNum)
  /\ LET pktNum == AddUint32(client.SendPacketNum)
         data == ClientData(client.ConnectionID, client.Keys, pktNum,
                            Buf(0, n), paddingSize)
     IN client' = [client EXCEPT !.SendPacketNum = pktNum,
                                 !.wire = <<data>>, !.lastSend = now,
                                 !.firstData = IF @ = NoPn THEN data.pn ELSE @]
  /\ UNCHANGED <<hubVars, pq, nowMs, pqRet, pure, dq, lk>>

\* GameTunnelClientConn.maybeKeepAlive at time t: the client afterwards
maybeKeepAlive(c, t, paddingSize) ==
  IF cfg.KeepAliveInterval = 0 THEN [c EXCEPT !.wire = <<>>]
  ELSE LET pktNum == AddUint32(c.SendPacketNum)
       IN [c EXCEPT !.SendPacketNum = pktNum,
                    !.wire = <<ClientKeepAlive(c.ConnectionID, pktNum,
                                               paddingSize)>>,
                    !.lastSend = t,
                    !.keepAlives = @ + 1]

\* receiveLoop: the read deadline passes with nothing received
ClientReadTimeout(limit, paddingSize) ==
  /\ client.state = "ready"
  /\ client.closed = 0
  /\ now + ClientReadDeadlineSec <= limit
  /\ PnWindow(client.SendPacketNum)
  /\ now' = now + ClientReadDeadlineSec
  /\ client' = maybeKeepAlive(client, now', paddingSize)
  /\ UNCHANGED <<cfg, hub, sessions, sess, view, rx, reaper, out, ret,
                 firstData, pq, nowMs, pqRet, pure, dq, lk>>

\* The datagram the client wrote last reaches the server's socket; a
\* ClientHello reaches it once
ClientDatagramArrives ==
  /\ client.wire # <<>>
  /\ FlagsType(client.wire[1].flags) = PacketType_HANDSHAKE
       => sessions[client.ConnectionID] = 0
  /\ RoutePacket(client.wire[1], ClientAddr)

(***************************************************************************)
(* The server's locks.  Each goroutine runs its call from one lock         *)
(* operation to the next; pc is the lock it is about to take ("h.Lock",    *)
(* "h.RLock", "s.Lock", ...) or the section it is in.  The locks are       *)
(* sync.RWMutex: a call to Lock that waits keeps later calls to RLock out, *)
(* and Unlock lets in the readers that wait at that moment.                *)
(***************************************************************************)
\* The positions at which a goroutine waits for Hub.mu as a writer
HLockPcs == {"h.Lock"}

\* The positions at which a goroutine waits for Session.mu as a writer
SLockPcs == {"s.Lock", "stats:s.Lock", "close:s.Lock"}

\* The positions at which a goroutine waits for a lock
LockPcs == HLockPcs \cup SLockPcs \cup {"h.RLock", "s.RLock", "c.Lock"}

\* The goroutines waiting at one of the positions
Waiting(pcs) == {t \in Threads : lk.pc[t] \in pcs}

\* Lock can proceed
CanLock(m) == m.w = "" /\ m.r = {}

\* RLock can proceed: Unlock has let the reader in, or no writer holds the
\* lock and none waits for it
CanRLock(m, t, writers) == t \in m.r \/ (m.w = "" /\ writers = {})

Lock(m, t) == [m EXCEPT !.w = t]

\* Unlock, with the readers that wait in RLock
Unlock(m, t, readers) == [m EXCEPT !.w = "", !.r = readers]

RLock(m, t) == [m EXCEPT !.r = @ \cup {t}]

\* RUnlock that leaves the reader registered
RUnlockLeaks(m, t) == m

RUnlock(m, t) == [m EXCEPT !.r = @ \ {t}]

\* h.mu.Unlock
HubUnlock(m, t) == Unlock(m, t, Waiting({"h.RLock"}))

\* session.mu.Unlock
SessionUnlock(m, t) == Unlock(m, t, Waiting({"s.RLock"}))

\* Where a goroutine continues after RemoveSession, the reaper's removal or
\* Stop's loop
AfterRemove(t) ==
  CASE t = "reaper" -> "wait"
    [] OTHER -> "done"

\* A step of a goroutine; the receive loop forgets the datagram when it is
\* back at its read
LockStep(l) ==
  /\ lk' = IF l.pc["rx"] = "idle" THEN [l EXCEPT !.kind = "none"] ELSE l
  /\ UNCHANGED <<hubVars, pq, nowMs, pqRet, pure, dq, client>>

\* Listener.receiveLoop reads a datagram and calls RoutePacket; a ClientHello
\* arrives until the session exists
RxReceive(kind) ==
  /\ lk.pc["rx"] = "idle"
  /\ lk.hclosed = 0
  /\ kind = "hello" <=> ~lk.created
  /\ LockStep([lk EXCEPT !.pc["rx"] = "h.RLock", !.kind = kind])

\* RoutePacket: h.mu.RLock, the lookup and h.mu.RUnlock
RxLookup ==
  /\ lk.pc["rx"] = "h.RLock"
  /\ CanRLock(lk.hmu, "rx", Waiting(HLockPcs))
  /\ LockStep([lk EXCEPT !.hmu = RUnlock(RLock(@, "rx"), "rx"),
                         !.pc["rx"] = IF lk.entry THEN "s.Lock"
                                      ELSE IF lk.kind = "hello" THEN "h.Lock"
                                      ELSE "idle"])

\* handleNewHandshake: h.mu.Lock, the registration and h.mu.Unlock
RxInsert ==
  /\ lk.pc["rx"] = "h.Lock"
  /\ lk.kind = "hello"
  /\ CanLock(lk.hmu)
  /\ LockStep([lk EXCEPT !.hmu = HubUnlock(Lock(@, "rx"), "rx"),
                         !.pc["rx"] = "idle",
                         !.entry = @ \/ ~lk.created, !.created = TRUE])

\* RemoveSession, the reaper's removal and Stop's loop: h.mu.Lock and the
\* section up to session.mu.Lock in Session.Close, or, when the session is
\* gone or closed already, up to h.mu.Unlock
HubRemove(t) ==
  /\ lk.pc[t] = "h.Lock"
  /\ t # "rx"
  /\ CanLock(lk.hmu)
  /\ IF lk.entry /\ lk.sclosed = 0
       THEN LockStep([lk EXCEPT !.hmu = Lock(@, t), !.sclosed = 1,
                                !.pc[t] = "close:s.Lock"])
       ELSE LockStep([lk EXCEPT !.hmu = HubUnlock(Lock(@, t), t),
                                !.entry = FALSE, !.pc[t] = AfterRemove(t)])

\* RoutePacket: session.mu.Lock, the update of the session and
\* session.mu.Unlock, then the handler up to its first lock
RxTouch ==
  /\ lk.pc["rx"] = "s.Lock"
  /\ CanLock(lk.smu)
  /\ LockStep([lk EXCEPT !.smu = SessionUnlock(Lock(@, "rx"), "rx"),
                         !.pc["rx"] = IF lk.kind = "data" THEN "stats:s.Lock"
                                      ELSE "idle"])

\* handleDataPacket: session.mu.Lock, the statistics, session.mu.Unlock, and
\* receiveLoop's session.PushInbound
RxStatsPush ==
  /\ lk.pc["rx"] = "stats:s.Lock"
  /\ CanLock(lk.smu)
  /\ LockStep([lk EXCEPT !.smu = SessionUnlock(Lock(@, "rx"), "rx"),
                         !.pc["rx"] = "idle",
                         !.inbound = IF lk.sclosed = 0 /\ @ < MaxQueue
                                       THEN @ + 1 ELSE @])

\* SendToSession: session.mu.Lock around the statistics
WriteLockStats ==
  /\ lk.pc["write"] = "stats:s.Lock"
  /\ CanLock(lk.smu)
  /\ LockStep([lk EXCEPT !.smu = Lock(@, "write"), !.pc["write"] = "stats:s.W"])

\* SendToSession: the statistics and session.mu.Unlock
WriteStatsDone ==
  /\ lk.pc["write"] = "stats:s.W"
  /\ LockStep([lk EXCEPT !.smu = SessionUnlock(@, "write"),
                         !.pc["write"] = "idle"])

\* Session.Close: s.mu.Lock, close(s.inbound) and s.mu.Unlock, then the
\* delete and h.mu.Unlock
RemoveClose(t) ==
  /\ lk.pc[t] = "close:s.Lock"
  /\ CanLock(lk.smu)
  /\ LockStep([lk EXCEPT !.smu = SessionUnlock(Lock(@, t), t),
                         !.chanClosed = TRUE, !.entry = FALSE,
                         !.hmu = HubUnlock(@, t), !.pc[t] = AfterRemove(t)])

\* cleanupLoop: a tick of the ticker
ReaperTick ==
  /\ lk.pc["reaper"] = "wait"
  /\ LockStep([lk EXCEPT !.pc["reaper"] = IF lk.hclosed = 1 THEN "done"
                                          ELSE "h.RLock"])

\* cleanupLoop: h.mu.RLock and the range over the table
ReaperRange ==
  /\ lk.pc["reaper"] = "h.RLock"
  /\ CanRLock(lk.hmu, "reaper", Waiting(HLockPcs))
  /\ IF lk.entry
       THEN LockStep([lk EXCEPT !.hmu = RLock(@, "reaper"),
                                !.pc["reaper"] = "s.RLock"])
       ELSE LockStep([lk EXCEPT !.hmu = RUnlock(RLock(@, "reaper"), "reaper"),
                                !.pc["reaper"] = "wait"])

\* cleanupLoop: session.mu.RLock
SessionRLock ==
  /\ lk.pc["reaper"] = "s.RLock"
  /\ CanRLock(lk.smu, "reaper", Waiting(SLockPcs))
  /\ LockStep([lk EXCEPT !.smu = RLock(@, "reaper"), !.pc["reaper"] = "s.R"])

\* cleanupLoop: the comparison, session.mu.RUnlock and h.mu.RUnlock
ReaperCompare(expired) ==
  /\ lk.pc["reaper"] = "s.R"
  /\ LockStep([lk EXCEPT !.smu = RUnlock(@, "reaper"),
                         !.hmu = RUnlock(@, "reaper"),
                         !.pc["reaper"] = IF expired THEN "h.Lock" ELSE "wait"])

\* Hub.Stop up to h.mu.Lock
StopStart ==
  /\ lk.pc["stop"] = "start"
  /\ LockStep([lk EXCEPT !.hclosed = 1, !.pc["stop"] = "h.Lock"])

\* GameTunnelConn.Close up to RemoveSession's h.mu.Lock
CloseStart ==
  /\ lk.pc["close"] = "start"
  /\ lk.created
  /\ LockStep([lk EXCEPT !.vclosed = 1, !.pc["close"] = "h.Lock"])

\* A call of GameTunnelConn.Read
ReadCall(t) ==
  /\ lk.pc[t] = "idle"
  /\ lk.created
  /\ LockStep([lk EXCEPT !.pc[t] = "c.Lock"])

\* Read: c.mu.Lock and the checks before the channel receive
ViewLock(t) ==
  /\ lk.pc[t] = "c.Lock"
  /\ lk.cmu = ""
  /\ IF lk.vclosed = 1
       THEN LockStep([lk EXCEPT !.pc[t] = "idle"])
       ELSE LockStep([lk EXCEPT !.cmu = t, !.pc[t] = "recv"])

\* Read: the channel receive yields a record or the close, c.mu.Unlock
ReadRecv(t) ==
  /\ lk.pc[t] = "recv"
  /\ lk.inbound > 0 \/ lk.chanClosed
  /\ LockStep([lk EXCEPT !.cmu = "", !.pc[t] = "idle",
                         !.inbound = IF @ > 0 THEN @ - 1 ELSE @])

\* GameTunnelConn.Write of one chunk up to SendToSession's session.mu.Lock
WriteCall ==
  /\ lk.pc["write"] = "idle"
  /\ lk.created
  /\ lk.vclosed = 0
  /\ LockStep([lk EXCEPT !.pc["write"] = "stats:s.Lock"])

\* The steps a goroutine takes once it is inside a call
Running(t) ==
  \/ HubRemove(t) \/ RemoveClose(t)
  \/ ViewLock(t) \/ ReadRecv(t)
  \/ (t = "rx"
        /\ (RxLookup \/ RxInsert \/ RxTouch \/ RxStatsPush))
  \/ (t = "write" /\ (WriteLockStats \/ WriteStatsDone))
  \/ (t = "reaper"
        /\ (ReaperRange \/ SessionRLock
             \/ \E expired \in BOOLEAN : ReaperCompare(expired)))

\* The calls that begin: a datagram arrives, the ticker fires, the host
\* calls Read, Write, Close or Listener.Close
Called ==
  \/ \E kind \in {"hello", "data"} : RxReceive(kind)
  \/ ReaperTick
  \/ StopStart
  \/ CloseStart
  \/ \E t \in {"read1", "read2"} : ReadCall(t)
  \/ WriteCall

(***************************************************************************)
(* Specifications.  Spec is the Hub under every datagram on two connection *)
(* IDs; SpecConn is one connection with its view and every way to close    *)
(* it; SpecIdle is the reaper over the whole idle timeout; SpecWrap is the *)
(* senders of one session over the whole range of the counter.             *)
(***************************************************************************)
RouteStep(datagrams, addrs) ==
  \E data \in datagrams, remoteAddr \in addrs : RoutePacket(data, remoteAddr)

ReadStep ==
  \/ \E sid \in SIDs, n \in ReadLens : ViewRead(sid, n)
  \/ \E sid \in SIDs : ViewReadWake(sid)

WriteStep(lens) ==
  \/ \E sid \in SIDs, n \in lens, paddingSize \in DataSizes :
       ViewWrite(sid, n, paddingSize)
  \/ \E sid \in SIDs, paddingSize \in DataSizes : ViewWriteNext(sid, paddingSize)

CloseStep ==
  \/ \E sid \in SIDs : ViewClose(sid)
  \/ \E sid \in SIDs : ViewCloseRemove(sid)

ReaperStep ==
  \/ ReaperScan
  \/ \E key \in CIDs : ReaperRemove(key)

\* Everything but Data, on every connection ID
HubDatagrams == {d \in Datagrams : FlagsType(d.flags) # PacketType_DATA}

Next ==
  \/ RouteStep(HubDatagrams, Addrs)
  \/ HubStop

Spec == Init /\ [][Next]_vars

\* Everything a client emits on one connection ID, from every address
PeerDatagrams ==
  Hellos(1) \cup HonestData(1) \cup KeepAlives(1) \cup ClientControl(1)

NextPeer ==
  \/ RouteStep(PeerDatagrams, Addrs)
  \/ ReceivePush
  \/ \E sid \in SIDs, paddingSize \in DataSizes : ViewWrite(sid, 1, paddingSize)

SpecPeer == Init /\ [][NextPeer]_vars

\* Handshakes and Data, authentic and not, on one connection ID
AuthDatagrams == Hellos(1) \cup HonestData(1) \cup ForgedData(1) \cup Junk(1)

NextAuth ==
  \/ RouteStep(AuthDatagrams, Addrs)
  \/ ReceivePush
  \/ ReadStep

SpecAuth == Init /\ [][NextAuth]_vars

\* What one client sends on its connection
ConnDatagrams ==
  { d \in DatagramsOf({1}) :
      \/ FlagsType(d.flags) = PacketType_HANDSHAKE
      \/ d \in HonestData(1)
      \/ d = ClientClose(1, U32(2)) }

\* One client that dials once, from one address
NextConn ==
  \/ (NumAllocated = 0 \/ sessions[1] # 0) /\ RouteStep(ConnDatagrams, {1})
  \/ ReceivePush
  \/ ReadStep
  \/ WriteStep(WriteLens)
  \/ CloseStep
  \/ ReaperStep
  \/ TimePasses(MaxClock)
  \/ HubStop

SpecConn == Init /\ [][NextConn]_vars


\* The handshake and what makes the Hub reply, from one address
WrapDatagrams ==
  Hellos(1) \cup KeepAlives(1)
    \cup {Marshal(NewControlPacket(1, U32(2), ControlPayload(<<1>>)), cfg, 0)}

\* Every sender of one session, over the whole range of its counter
NextWrap ==
  \/ RouteStep(WrapDatagrams, {1})
  \/ \E sid \in SIDs, paddingSize \in DataSizes : ViewWrite(sid, 1, paddingSize)
  \/ \E sid \in SIDs, paddingSize \in DataSizes : ViewWriteBulk(sid, paddingSize)
  \/ CloseStep

SpecWrap == Init /\ [][NextWrap]_vars

\* Traffic that refreshes a session, and the reaper over the whole timeout
NextIdle ==
  \/ \E connID \in CIDs : RouteStep(Hellos(connID) \cup KeepAlives(connID), {1})
  \/ ReaperStep
  \/ TimePasses(NewHubTimeout(cfg) + Horizon)

SpecIdle == Init /\ [][NextIdle]_vars

\* Every way to close one session, in every order
NextClose ==
  \/ RouteStep(Hellos(1) \cup {ClientClose(1, U32(2))}, {1})
  \/ CloseStep
  \/ ReaperStep
  \/ TimePasses(MaxClock)
  \/ HubStop

SpecClose == Init /\ [][NextClose]_vars

\* Caller buffer sizes of Read, for the order of a stream
StreamLens == {1, 2, 4}

\* One connection: records of two kinds into the queue and Reads of several
\* buffer sizes out of it, until the Hub is stopped and the queue is drained
NextStream ==
  \/ RouteStep(Hellos(1) \cup StreamData(1), {1})
  \/ ReceivePush
  \/ \E sid \in SIDs, n \in StreamLens : ViewRead(sid, n)
  \/ \E sid \in SIDs : ViewReadWake(sid)
  \/ HubStop

SpecStream == Init /\ [][NextStream]_vars

\* One connection whose inbound queue is filled to its capacity and drained
NextFull ==
  \/ RouteStep(Hellos(1) \cup HonestData(1) \cup KeepAlives(1), {1})
  \/ ReceivePush
  \/ \E data \in HonestData(1) : ReceiveBulk(data, 1)
  \/ ReadStep

SpecFull == Init /\ [][NextFull]_vars

\* Buffer lengths a host writes: up to two chunks, the last one short or full
ChunkedLens ==
  {0, 1, GetMaxPayloadSize(cfg), GetMaxPayloadSize(cfg) + 1,
   2 * GetMaxPayloadSize(cfg)}

\* One connection: Writes of one and two chunks between the Hub's own
\* sends, with socket errors and the session closed under a Write
NextWrite ==
  \/ RouteStep(Hellos(1) \cup KeepAlives(1) \cup ClientControl(1), {1})
  \/ WriteStep(ChunkedLens)
  \/ \E sid \in SIDs, n \in ChunkedLens : ViewWriteSendError(sid, n)
  \/ \E sid \in SIDs : ViewWriteNextSendError(sid)
  \/ HubStop

SpecWrite == Init /\ [][NextWrite]_vars

\* One live connection, and what RoutePacket turns away: datagrams that are
\* too short or not QUIC-like on both connection IDs, everything but a
\* handshake on a connection ID the table does not hold
RejectDatagrams ==
  Hellos(1) \cup ClientControl(1) \cup Junk(1)
    \cup StreamData(2) \cup KeepAlives(2) \cup ClientControl(2) \cup Junk(2)

NextReject ==
  \/ RouteStep(RejectDatagrams, Addrs)
  \/ TimePasses(TimeStep)

SpecReject == Init /\ [][NextReject]_vars

\* The codec: a Packet is encoded, the datagram is decoded
NextCodec ==
  \/ \E paddingSize \in PaddingSizes(pure.p, cfg), seed \in CodecSeeds :
       MarshalCall(paddingSize, seed)
  \/ UnmarshalCall

SpecCodec == InitCodec /\ [][NextCodec]_vars

\* The codec on datagrams as they arrive and on ill-formed Packets
SpecDecode == InitDecode /\ [][NextCodec]_vars

\* The obfuscator: a Packet is encoded, wrapped and unwrapped
NextObfs ==
  \/ \E paddingSize \in PaddingSizes(pure.p, cfg), seed \in CodecSeeds :
       MarshalCall(paddingSize, seed)
  \/ \E seed \in CodecSeeds, version \in quicVersions : WrapCall(seed, version)
  \/ UnwrapCall

SpecObfs == InitObfs /\ [][NextObfs]_vars

\* A send path and the receive loop under each obfuscation mode: a Packet is
\* encoded, written to the socket, read from it and routed
NextWire ==
  \/ \E paddingSize \in PaddingSizes(pure.p, cfg), seed \in CodecSeeds :
       MarshalCall(paddingSize, seed)
  \/ WriteToUDPCall
  \/ ReceiveLoopCall

SpecWire == InitObfs /\ [][NextWire]_vars

\* Key derivation by the two roles, and handshakes that derive the server's
\* keys
NextKeys ==
  \/ \E isClient \in BOOLEAN : DeriveSessionKeysCall(isClient)
  \/ RouteStep(Hellos(1), {1})

SpecKeys == InitKeys /\ [][NextKeys]_vars

\* The classifier on its own
NextClassify == ClassifyCall

SpecClassify == InitClassify /\ [][NextClassify]_vars

\* A Config is validated, then asked for its largest payload
NextConfig ==
  \/ ValidateCall
  \/ GetMaxPayloadSizeCall

SpecConfig == InitConfig /\ [][NextConfig]_vars

\* The varint functions: a value is encoded, a buffer is decoded
NextVarint ==
  \/ \E tail \in {<<>>, <<255, 1>>} : EncodeVarintCall(tail)
  \/ DecodeVarintCall

SpecVarint == InitVarint /\ [][NextVarint]_vars

\* The receive loop beside the goroutines that close a session: the view's
\* Close and the reaper run between the steps of PushInbound
NextRace ==
  \/ RouteStep(Hellos(1) \cup HonestData(1), {1})
  \/ PushInboundCheck
  \/ PushInboundSend
  \/ CloseStep
  \/ ReaperStep
  \/ TimePasses(MaxClock)

SpecRace == Init /\ [][NextRace]_vars

\* One client's session, Data that fails authentication from every address,
\* the clock and the reaper
NextForge ==
  \/ RouteStep(Hellos(1) \cup ForgedData(1), Addrs)
  \/ TimePasses(MaxClock)
  \/ ReaperStep

SpecForge == Init /\ [][NextForge]_vars

\* The scheduler over time: few packets, the clock runs
NextSched ==
  \/ \E data \in SchedData : EnqueueCall(data)
  \/ \E priority \in SchedPriorities :
       EnqueueWithPriorityCall(Buf(0, HighPriorityMaxSize), priority)
  \/ DequeueCall
  \/ Tick(MsStep)

SpecSched == InitSched /\ [][NextSched]_vars

\* The scheduler at capacity: bursts fill the levels, the clock stands
NextSchedFull ==
  \/ \E data \in SchedData :
       Singles(pq) < MaxBurstSingles /\ EnqueueCall(data)
  \/ \E priority \in SchedPriorities :
       /\ Singles(pq) < MaxBurstSingles
       /\ EnqueueWithPriorityCall(Buf(0, HighPriorityMaxSize), priority)
  \/ \E level \in Levels : EnqueueBulk(Buf(0, HighPriorityMaxSize), level)
  \/ TakesFromFull(pq, nowMs) /\ DequeueCall

SpecSchedFull == InitSched /\ [][NextSchedFull]_vars

\* The scheduler with producers running while the consumer is inside
\* checkStarvation of a Low channel at capacity; the clock stands
NextSchedRace ==
  \/ Singles(pq) < MaxBurstSingles /\ EnqueueCall(Buf(0, HighPriorityMaxSize))
  \/ \E priority \in SchedPriorities :
       /\ Singles(pq) < MaxBurstSingles
       /\ EnqueueWithPriorityCall(Buf(0, HighPriorityMaxSize), priority)
  \/ EnqueueBulk(Buf(0, HighPriorityMaxSize), PriorityLow)
  \/ ~HasRoom(pq, PriorityLow) /\ DequeueTake
  \/ DequeueReturn
  \/ DequeueNoTake

SpecSchedRace == InitSched /\ [][NextSchedRace]_vars

\* New handshakes, good and bad, on two connection IDs, with a socket that
\* can refuse the ServerHello
HelloDatagrams == Hellos(1) \cup Hellos(2) \cup BadHellos(1) \cup BadHellos(2)

NextHello ==
  \/ RouteStep(HelloDatagrams, Addrs)
  \/ \E data \in HelloDatagrams, remoteAddr \in Addrs :
       RoutePacketSendError(data, remoteAddr)

SpecHello == Init /\ [][NextHello]_vars

\* The goroutines of the server at the locks
NextLocks ==
  \/ Called
  \/ \E t \in Threads : Running(t)

InitLocks == InitSched /\ pq.mode = PriorityMode_GAMING

SpecLocks == InitLocks /\ [][NextLocks]_vars

\* A goroutine that can run is run, and a goroutine waiting for a lock gets
\* it when it is free again and again
SpecLocksFair == SpecLocks /\ \A t \in Threads : SF_vars(Running(t))

\* One client and the server: the handshake, writes on both sides and the
\* client's read timeouts
NextClient ==
  \/ \E paddingSize \in PaddedSizes : ClientDial(1, paddingSize)
  \/ ClientDatagramArrives
  \/ ClientHandshakeDone
  \/ \E paddingSize \in DataSizes : ClientWrite(1, paddingSize)
  \/ \E paddingSize \in PaddedSizes :
       ClientReadTimeout(ClientHorizon, paddingSize)
  \/ ReceivePush
  \/ \E sid \in SIDs, paddingSize \in DataSizes : ViewWrite(sid, 1, paddingSize)

SpecClient == Init /\ [][NextClient]_vars

(***************************************************************************)
(* Properties.                                                             *)
(***************************************************************************)
\* The sessions the Hub has created and not closed
Live == {sid \in SIDs : sess[sid].alloc /\ sess[sid].closed = 0}

UniqueCID ==
  \A s1 \in Live, s2 \in Live : s1 # s2 => sess[s1].ID # sess[s2].ID

RetransmitStep ==
  \A connID \in CIDs, remoteAddr \in Addrs :
    (sessions[connID] # 0 /\ \E data \in Hellos(connID) : RoutePacket(data, remoteAddr))
      => LET sid == sessions[connID]
         IN  /\ sessions' = sessions
             /\ sess'[sid].Keys = sess[sid].Keys
             /\ sess'[sid].LocalKeyPair = sess[sid].LocalKeyPair
             /\ sess'[sid].closed = 0
             /\ \A other \in SIDs \ {sid} : sess'[other] = sess[other]
             /\ hub' = hub
             /\ view' = view
             /\ Len(out') = 1
             /\ FlagsType(out'[1].d.flags) = PacketType_HANDSHAKE
             /\ out'[1].d.cid = connID
             /\ out'[1].d.payload = HandshakePayload(sess[sid].LocalKeyPair.PublicKey)
             /\ out'[1].to = sess'[sid].RemoteAddr
             /\ out'[1].to = remoteAddr

\* C1: a Handshake on a connection ID already in the table creates and replaces
\* nothing: the table, the session's keys and server key pair, both counters
\* and the views are as before, and one ServerHello with that connection ID and
\* the session's server public key goes to the session's remote address; no two
\* sessions that are not closed ever hold the same connection ID.
C1_IdempotentRetransmit == []UniqueCID /\ [][RetransmitStep]_vars

\* A retransmitted ServerHello has just been sent: its number is past the first.
C1_Witness ==
  /\ ret.op = "RoutePacket" /\ ret.err = "nil"
  /\ Len(out) = 1
  /\ FlagsType(out[1].d.flags) = PacketType_HANDSHAKE
  /\ U32Less(U32(1), out[1].d.pn)
  /\ hub.totalSessions = 1


\* The datagram passes every check RoutePacket and the handler of its kind
\* make for the session: length, first byte, decoding, and for Data the seal
\* of the session's peer over this header and packet number.
Authentic(data, sid) ==
  /\ data.payload.kind = "ct"
  /\ data.payload.intact
  /\ data.payload.key = ClientKeys(sess[sid].LocalKeyPair.PublicKey, cfg.Key).SendKey
  /\ data.payload.nonce = data.pn
  /\ data.payload.aad = AdditionalData(data.flags, data.version, data.cid)

ValidFor(data, sid) ==
  /\ data.size >= MinPacketSize
  /\ IsQUICLike(data.flags)
  /\ data.version = FakeQUICVersion
  /\ FlagsType(data.flags) = PacketType_DATA => Authentic(data, sid)
  /\ FlagsType(data.flags) = PacketType_HANDSHAKE => data.payload.kind = "hs"
  /\ FlagsType(data.flags) = PacketType_CONTROL => data.payload.kind = "ctl"

IsControlClose(data) ==
  /\ FlagsType(data.flags) = PacketType_CONTROL
  /\ data.payload.kind = "ctl"
  /\ data.payload.size > 0
  /\ data.payload.bytes[1] = 0

\* A valid packet of the given set from another address than the session's
MigrationStep(datagrams) ==
  \A data \in datagrams, remoteAddr \in Addrs :
    LET sid == sessions[data.cid]
    IN  (/\ sid # 0
         /\ sess[sid].RemoteAddr # remoteAddr
         /\ ValidFor(data, sid)
         /\ RoutePacket(data, remoteAddr))
          => /\ sessions'[data.cid] = sid
             /\ sess'[sid].State = SessionState_ACTIVE
             /\ sess'[sid].closed = 0
             /\ sess'[sid].Keys = sess[sid].Keys
             /\ sess'[sid].inbound = sess[sid].inbound
             /\ sess'[sid].RemoteAddr = remoteAddr

\* Whatever a step hands to the socket for a session goes to its remote
SendsFollowRemote ==
  \A i \in 1..Len(out') : out'[i].to = sess'[out'[i].sid].RemoteAddr

\* C2 (as amended): a valid packet other than a Control-Close that arrives for
\* a session in the table from an address B other than the session's remote
\* leaves the session in the table, Active, with its keys and inbound queue,
\* and makes B its remote; every datagram sent for a session (Write, keep-alive
\* reply, pong, ServerHello) is addressed to the session's current remote.
C2_Migration ==
  [][/\ MigrationStep({d \in PeerDatagrams : ~IsControlClose(d)})
     /\ SendsFollowRemote]_vars

\* C2 as stated: the same for every valid packet
C2_AsStated ==
  [][MigrationStep(PeerDatagrams) /\ SendsFollowRemote]_vars

\* After a migration, a Write of the view has just gone to the new remote.
C2_Witness ==
  \E sid \in SIDs :
    /\ view[sid].made
    /\ sess[sid].RemoteAddr # view[sid].remote
    /\ ret = Ret("Write", sid, 1, "nil")
    /\ Len(out) = 1
    /\ FlagsType(out[1].d.flags) = PacketType_DATA
    /\ out[1].to = sess[sid].RemoteAddr

\* C5 as stated: the Control-Close of the client's Close, arriving for a
\* session in the table, removes the session from the table, closes its
\* inbound queue and lowers the active-session count by one, under every Config.
C5_PeerClose ==
  [][\A remoteAddr \in Addrs :
       LET sid == sessions[1]
       IN  (sid # 0 /\ RoutePacket(ClientClose(1, U32(2)), remoteAddr))
             => /\ sessions'[1] = 0
                /\ sess'[sid].chanClosed = 1
                /\ hub'.activeSessions = hub.activeSessions - 1]_vars

\* C7 as stated: every KeepAlive the client emits, arriving for a session in
\* the table, sets the session's last-active time to the present and makes
\* the Hub send exactly one empty KeepAlive to the session's remote address,
\* under every Config.
C7_KeepAliveBounce ==
  [][\A remoteAddr \in Addrs, data \in KeepAlives(1) :
       LET sid == sessions[1]
       IN  (sid # 0 /\ RoutePacket(data, remoteAddr))
             => /\ sess'[sid].LastActiveAt = now
                /\ Len(out') = 1
                /\ FlagsType(out'[1].d.flags) = PacketType_KEEPALIVE
                /\ out'[1].d.payload.size = 0
                /\ out'[1].to = sess'[sid].RemoteAddr]_vars

\* A Data packet that reaches the handler and is not authentic is dropped there
AuthFailStep ==
  \A data \in HonestData(1) \cup ForgedData(1), remoteAddr \in Addrs :
    LET sid == sessions[data.cid]
    IN  (/\ sid # 0
         /\ FlagsType(data.flags) = PacketType_DATA
         /\ data.size >= MinPacketSize /\ UnmarshalOk(data, cfg)
         /\ ~Authentic(data, sid)
         /\ RoutePacket(data, remoteAddr))
          => /\ ret'.err # "nil"
             /\ rx' = rx
             /\ out' = <<>>
             /\ sessions' = sessions
             /\ hub' = hub
             /\ sess'[sid] = [sess[sid] EXCEPT !.RemoteAddr = remoteAddr,
                                               !.LastActiveAt = now]

\* An authentic Data packet is decrypted, and the receive loop queues it
DeliverStep ==
  /\ \A data \in HonestData(1) \cup ForgedData(1), remoteAddr \in Addrs :
       LET sid == sessions[data.cid]
       IN  (/\ sid # 0
            /\ ValidFor(data, sid)
            /\ RoutePacket(data, remoteAddr))
             => /\ ret' = Ret("RoutePacket", sid, data.payload.pt.size, "nil")
                /\ rx' = [pc |-> "push", sid |-> sid, plaintext |-> data.payload.pt]
  /\ (ReceivePush /\ sess[rx.sid].closed = 0)
       => sess'[rx.sid].inbound = Append(sess[rx.sid].inbound, rx.plaintext)

\* C8: a Data packet for a session in the table that fails authentication
\* (other key or pre-shared key, altered ciphertext, other packet number,
\* other header) is answered with an error: nothing is queued or sent, the
\* table is unchanged, and the session keeps its state, keys, send counter and
\* inbound queue; an authentic Data packet is still decrypted and queued.
C8_AuthFailureIsLocal == [][AuthFailStep /\ DeliverStep]_vars

\* A Data packet has just failed decryption on a session that already holds a
\* delivered record and stays in the table.
C8_Witness ==
  /\ ret = Ret("RoutePacket", 0, 0, "decrypt")
  /\ sessions[1] # 0
  /\ sess[sessions[1]].State = SessionState_ACTIVE
  /\ Len(sess[sessions[1]].inbound) = 1

\* C3 as stated: a sender whose counter stands at 2^32-1 sends nothing more,
\* and no Data packet of a session is sealed under the packet number (the
\* nonce) of the first Data packet the session sealed with the same key.
C3_NoNonceReuse ==
  [][\A i \in 1..Len(out') :
       LET m == out'[i]
       IN  /\ sess[m.sid].SendPacketNum # U32Max
           /\ (FlagsType(m.d.flags) = PacketType_DATA /\ firstData[m.sid] # NoPn)
                => m.d.pn # firstData[m.sid]]_vars

\* The numbers a step assigns on a session: one fetch-and-add each
AssignStep ==
  /\ \A i \in 1..Len(out') :
       LET m == out'[i]
           old == sess[m.sid].SendPacketNum
       IN  /\ m.d.pn = U32Add(old, U32(1))
           /\ sess'[m.sid].SendPacketNum = U32Add(old, m.run)
           /\ old # U32Max => U32Less(old, m.d.pn)
  /\ \A sid \in SIDs :
       (sess[sid].alloc /\ sess'[sid].SendPacketNum # sess[sid].SendPacketNum)
         => Len(out') = 1 /\ out'[1].sid = sid
  /\ Len(out') <= 1

\* C4: every datagram sent for a session (ServerHello and its retransmit,
\* KeepAlive reply, Pong, Write, the view's Control-Close), in every order of
\* the senders, carries the session's counter plus one and leaves the counter
\* at that number; the counter moves in no other way, so that until the
\* counter stands at 2^32-1 each number is greater than all numbers assigned
\* before it on the session.
C4_AtomicIncreasing == [][AssignStep]_vars

\* The view's Control-Close has just taken the number after a ServerHello, a
\* reply of the receive loop and a Write.
C4_Witness ==
  \E sid \in SIDs :
    /\ view[sid].closing
    /\ Len(out) = 1 /\ out[1].sid = sid
    /\ FlagsType(out[1].d.flags) = PacketType_CONTROL
    /\ firstData[sid] # NoPn
    /\ U32Less(firstData[sid], out[1].d.pn)
    /\ U32Less(U32(1), firstData[sid])

\* The timeout the reaper is to apply, in seconds
IdleTimeout ==
  IF cfg.KeepAliveInterval = 0 THEN 5 * 60 ELSE 3 * cfg.KeepAliveInterval

IdleFor(key) == now - sess[sessions[key]].LastActiveAt

ReapStep ==
  /\ ReaperScan
       => /\ reaper'.toRemove =
               {key \in CIDs : sessions[key] # 0 /\ IdleFor(key) > IdleTimeout}
          /\ now >= reaper.nextTick
          /\ reaper'.nextTick = reaper.nextTick + 30
          /\ sessions' = sessions /\ sess' = sess /\ hub' = hub
  /\ \A key \in CIDs :
       (ReaperRemove(key) /\ sessions[key] # 0)
         => LET sid == sessions[key]
            IN  /\ sessions'[key] = 0
                /\ sess'[sid].closed = 1
                /\ sess'[sid].State = SessionState_CLOSED
                /\ sess'[sid].chanClosed = 1
                /\ hub'.activeSessions = hub.activeSessions - 1
  /\ now' # now => reaper.toRemove = {}

\* Once a tick has been handled, no session of the table was idle for longer
\* than the timeout at that tick.
ReapedByTick ==
  (reaper.pc = "wait" /\ now < reaper.nextTick)
    => \A key \in CIDs :
         sessions[key] # 0
           => (reaper.nextTick - 30) - sess[sessions[key]].LastActiveAt
                 <= IdleTimeout

SessionIsClosed(sid) == view[sid].made /\ (view[sid].closed = 1 \/ sess[sid].closed = 1)

NothingBuffered(sid) ==
  view[sid].readOffset >= view[sid].readBuf.size /\ sess[sid].inbound = <<>>

\* C9 as stated: on a closed session a Read with nothing buffered returns
\* end-of-stream, a Read blocked on the empty queue is woken with
\* end-of-stream, and a Write returns an error with 0 bytes written and sends
\* nothing.
C9_ClosedSurfaces ==
  [][\A sid \in SIDs :
       SessionIsClosed(sid)
         => /\ \A n \in ReadLens :
                 (NothingBuffered(sid) /\ ViewRead(sid, n))
                   => ret' = Ret("Read", sid, 0, "EOF")
            /\ (NothingBuffered(sid) /\ ViewReadWake(sid))
                 => ret' = Ret("Read", sid, 0, "EOF")
            /\ \A n \in WriteLens, paddingSize \in DataSizes :
                 ViewWrite(sid, n, paddingSize)
                   => ret'.op = "Write" /\ ret'.n = 0 /\ ret'.err # "nil"
                        /\ out' = <<>>]_vars

\* Closing leaves its marks once
ClosedOnce(sid) ==
  /\ view[sid].closeSent <= 1
  /\ sess[sid].chanClosed <= 1
  /\ sess[sid].closed = 1
       => sess[sid].chanClosed = 1 /\ \A key \in CIDs : sessions[key] # sid
  /\ (view[sid].closed = 1 /\ ~view[sid].closing) => sess[sid].closed = 1

\* C10: in every order of the view's Close (once or again), the peer's
\* Control-Close, the reaper and Stop on one session, the view has sent at
\* most one Control-Close, the session's inbound queue has been closed at most
\* once and exactly once when the session is closed, a closed session is under
\* no key of the table, and the session is closed once the view's Close has
\* returned.
C10_CloseOnce == \A sid \in SIDs : ClosedOnce(sid)

\* The view's Close has returned on a Hub that has been stopped: the session
\* was closed by one of the two, and the other found nothing left to do.
C10_Witness ==
  \E sid \in SIDs :
    /\ ret = Ret("Close", sid, 0, "nil")
    /\ hub.closed = 1
    /\ view[sid].closed = 1 /\ ~view[sid].closing
    /\ view[sid].closeSent = 1
    /\ sess[sid].chanClosed = 1

\* The bytes of a byte string, in order
Bytes(b) == [i \in 1..b.size |-> b.base + i - 1]

RECURSIVE Concat(_)
Concat(records) ==
  IF records = <<>> THEN <<>>
  ELSE Bytes(Head(records)) \o Concat(Tail(records))

\* The bytes a view has accepted and not yet returned: the remainder of the
\* record being read, then the queued records
Pending(v, s) ==
  Bytes(Slice(v.readBuf, v.readOffset, v.readBuf.size)) \o Concat(s.inbound)

\* The part of the first pending record that is still to be read
FirstPiece(v, s) ==
  IF v.readOffset < v.readBuf.size THEN v.readBuf.size - v.readOffset
  ELSE IF s.inbound # <<>> THEN Head(s.inbound).size
  ELSE 0

StreamStep ==
  \A sid \in SIDs :
    LET before == Pending(view[sid], sess[sid])
        after == Pending(view'[sid], sess'[sid])
    IN  /\ (ReceivePush /\ rx.sid = sid)
             => after = IF ret'.err = "nil" THEN before \o Bytes(rx.plaintext)
                                            ELSE before
        /\ (ret'.op = "Read" /\ ret'.sid = sid /\ ret'.err = "nil")
             => /\ Bytes(ret'.b) \o after = before
                /\ ret'.n = ret'.b.size
        /\ \A n \in StreamLens :
             (ViewRead(sid, n) /\ ret'.op = "Read" /\ ret'.err = "nil")
               => ret'.n = Min(n, FirstPiece(view[sid], sess[sid]))
        /\ (~(ReceivePush /\ rx.sid = sid) /\ ~(ret'.op = "Read" /\ ret'.sid = sid))
             => after = before

ChunkSent(sid, n, tw) ==
  LET max == GetMaxPayloadSize(cfg)
      size == IF n - tw < max THEN n - tw ELSE max
      d == out'[1].d
  IN  /\ Len(out') = 1 /\ out'[1].sid = sid
      /\ FlagsType(d.flags) = PacketType_DATA
      /\ d.payload.pt = [kind |-> "buf", base |-> tw, size |-> size]
      /\ size >= 1 /\ size <= max
      /\ tw % max = 0
      /\ d.pn = U32Add(sess[sid].SendPacketNum, U32(1))
      /\ d.payload.nonce = d.pn
      /\ d.payload.key = sess[sid].Keys.SendKey
      /\ IF tw + size = n
           THEN /\ ret' = Ret("Write", sid, n, "nil")
                /\ ~view'[sid].writing
                /\ tw \div max + 1 = (n + max - 1) \div max
           ELSE /\ view'[sid].writing
                /\ view'[sid].totalWritten = tw + size
                /\ view'[sid].b.size = n
                /\ ret' = NoRet

\* The turn of Write's loop at offset tw failed
ChunkFailed(sid, tw) ==
  /\ out' = <<>>
  /\ ret'.op = "Write" /\ ret'.sid = sid /\ ret'.n = tw /\ ret'.err # "nil"
  /\ ~view'[sid].writing

WriteChunksStep ==
  \A sid \in SIDs :
    LET active == sess[sid].State = SessionState_ACTIVE
        v == view[sid]
    IN  /\ \A n \in ChunkedLens, paddingSize \in DataSizes :
             (v.closed = 0 /\ ViewWrite(sid, n, paddingSize))
               => IF n = 0 THEN out' = <<>> /\ ret' = Ret("Write", sid, 0, "nil")
                  ELSE IF active THEN ChunkSent(sid, n, 0)
                  ELSE ChunkFailed(sid, 0)
        /\ \A paddingSize \in DataSizes :
             ViewWriteNext(sid, paddingSize)
               => IF active THEN ChunkSent(sid, v.b.size, v.totalWritten)
                  ELSE ChunkFailed(sid, v.totalWritten)
        /\ \A n \in ChunkedLens : ViewWriteSendError(sid, n) => ChunkFailed(sid, 0)
        /\ ViewWriteNextSendError(sid) => ChunkFailed(sid, v.totalWritten)

C13_MtuCap ==
  \A i \in 1..Len(out) :
    FlagsType(out[i].d.flags) = PacketType_DATA => out[i].d.size <= cfg.MTU

QueueBounded == \A sid \in SIDs : Len(sess[sid].inbound) <= 256

\* The receive loop never waits in the push
PushNeverBlocks == rx.pc = "push" => ENABLED ReceivePush

FullQueueDrops ==
  (ReceivePush /\ Len(sess[rx.sid].inbound) = 256)
    => /\ sess'[rx.sid].inbound = sess[rx.sid].inbound
       /\ ret' = Ret("PushInbound", rx.sid, 0, "inbound buffer full")
       /\ rx' = RxIdle

\* C14: a session's inbound queue never holds more than 256 records; the push
\* of a record onto a queue of 256 leaves the queue as it is and reports the
\* drop; the push is always able to complete, and after it the receive loop is
\* back at reading the next datagram.
C14_QueueCap == []QueueBounded /\ []PushNeverBlocks /\ [][FullQueueDrops]_vars

\* A record has just been dropped on a full queue.
C14_Witness ==
  \E sid \in SIDs :
    /\ ret = Ret("PushInbound", sid, 0, "inbound buffer full")
    /\ Len(sess[sid].inbound) = 256
    /\ rx = RxIdle


(***************************************************************************)
(* The scheduler.                                                          *)
(***************************************************************************)
\* The packets waiting at a level
Queued(q, level) == {q.queues[level][i] : i \in 1 .. Len(q.queues[level])}

\* The head of the Low channel has waited longer than the starvation guard
LowHeadStarving ==
  /\ pq.queues[PriorityLow] # <<>>
  /\ nowMs - Head(pq.queues[PriorityLow]).EnqueuedAt > StarvationTimeoutMs

\* The call returned a packet of this level, which left the level's channel
TakenFrom(level) ==
  /\ pqRet'.pkt \in Queued(pq, level)
  /\ pqRet'.pkt.Priority = level
  /\ Len(pq'.queues[level]) = Len(pq.queues[level]) - 1

DequeueOrder ==
  DequeueCall =>
    /\ pqRet'.op = "Dequeue"
    /\ pq.queues[PriorityHigh] # <<>> =>
         /\ pqRet'.pkt = Head(pq.queues[PriorityHigh])
         /\ TakenFrom(PriorityHigh)
    /\ pq.queues[PriorityHigh] = <<>> /\ LowHeadStarving => TakenFrom(PriorityLow)
    /\ (/\ pq.queues[PriorityHigh] = <<>>
        /\ ~LowHeadStarving
        /\ pq.queues[PriorityMedium] # <<>>) =>
         /\ pqRet'.pkt = Head(pq.queues[PriorityMedium])
         /\ TakenFrom(PriorityMedium)
    /\ (/\ pq.queues[PriorityHigh] = <<>>
        /\ ~LowHeadStarving
        /\ pq.queues[PriorityMedium] = <<>>
        /\ pq.queues[PriorityLow] # <<>>) => TakenFrom(PriorityLow)
    /\ pqRet'.pkt = NoPacket <=> \A l \in Levels : pq.queues[l] = <<>>

\* C15: Dequeue returns a High packet whenever High is non-empty; otherwise a
\* Low packet if the head of Low has waited more than 500 ms; otherwise a
\* Medium packet if Medium is non-empty; otherwise a Low packet; and nil only
\* when all three levels are empty.
C15_DequeuePriority == [][DequeueOrder]_vars

\* A Dequeue returned a Low packet while a Medium packet was waiting
C15_Witness ==
  /\ pqRet.op = "Dequeue"
  /\ pqRet.pkt.Priority = PriorityLow
  /\ pq.queues[PriorityHigh] = <<>>
  /\ pq.queues[PriorityMedium] # <<>>


\* A Low packet that has waited longer than the starvation guard
Starved(p) ==
  /\ p \in Queued(pq, PriorityLow)
  /\ nowMs - p.EnqueuedAt > StarvationTimeoutMs

StarvationStep ==
  (DequeueCall /\ pq.queues[PriorityHigh] = <<>>) =>
    \A p \in Queued(pq, PriorityLow) :
      Starved(p) =>
        /\ pqRet'.pkt.Priority = PriorityLow
        /\ pqRet'.pkt.EnqueuedAt <= p.EnqueuedAt

\* C16: once a Low packet has waited more than 500 ms, every Dequeue that
\* finds High empty returns that packet or a Low packet enqueued before it,
\* never a Medium packet or a younger Low packet.
C16_StarvationBound == [][StarvationStep]_vars


\* The call took an entry out of the Low or the Medium channel
Displaced ==
  \/ Len(pq'.queues[PriorityLow]) < Len(pq.queues[PriorityLow])
  \/ Len(pq'.queues[PriorityMedium]) < Len(pq.queues[PriorityMedium])

DisplacementStep ==
  ((\E data \in SchedData : EnqueueCall(data)) /\ Displaced) =>
    /\ pq'.queues[PriorityHigh] = Append(pq.queues[PriorityHigh], pqRet'.pkt)
    /\ pqRet'.pkt.Priority = PriorityHigh
    /\ pqRet'.ok
    /\ pq'.dropped = pq.dropped + 1

\* C17: whenever Enqueue removes a Low or Medium entry to admit a High
\* packet, the High packet is in the High channel afterwards, Enqueue returns
\* true and the drop counter has grown by exactly one.
C17_Displacement == [][DisplacementStep]_vars


DepthBounded ==
  /\ GetStats(pq).HighQueued <= HighQueueSize
  /\ GetStats(pq).MediumQueued <= MediumQueueSize
  /\ GetStats(pq).LowQueued <= LowQueueSize

\* One call of Enqueue or of EnqueueWithPriority
SingleEnqueue ==
  \/ \E data \in SchedData : EnqueueCall(data)
  \/ \E priority \in SchedPriorities :
       EnqueueWithPriorityCall(Buf(0, HighPriorityMaxSize), priority)

\* The packet the call built is the new tail of its level's channel
Inserted ==
  pq'.queues[pqRet'.pkt.Priority]
    = Append(pq.queues[pqRet'.pkt.Priority], pqRet'.pkt)

EnqueueStatsStep ==
  SingleEnqueue =>
    /\ pqRet'.ok <=> Inserted
    /\ pqRet'.ok =>
         /\ \A l \in Levels :
              Enqueued(pq', l)
                = Enqueued(pq, l) + (IF l = pqRet'.pkt.Priority THEN 1 ELSE 0)
         /\ GetStats(pq').TotalEnqueued = GetStats(pq).TotalEnqueued + 1
         /\ pq'.dropped = pq.dropped
    /\ ~pqRet'.ok =>
         GetStats(pq').TotalEnqueued = GetStats(pq).TotalEnqueued
    /\ (~pqRet'.ok /\ pqRet'.pkt.Priority # PriorityHigh) =>
         /\ pq'.queues = pq.queues
         /\ pq'.dropped = pq.dropped + 1

\* C18: the depths never exceed 512, 256 and 128; Enqueue and
\* EnqueueWithPriority return true exactly when the packet was inserted and
\* then add one to that level's enqueue total (and to TotalEnqueued, the sum
\* of the three); when they return false for a Medium or Low packet the three
\* channels are unchanged and the drop counter has grown by one.
C18_SchedulerBounds == []DepthBounded /\ [][EnqueueStatsStep]_vars

\* A Medium packet was refused by the full Medium channel
C18_Witness ==
  /\ pqRet.op \in {"Enqueue", "EnqueueWithPriority"}
  /\ ~pqRet.ok
  /\ pqRet.pkt.Priority = PriorityMedium
  /\ GetStats(pq).MediumQueued = MediumQueueSize
  /\ GetStats(pq).Dropped > 0


(***************************************************************************)
(* RoutePacket's rejections.                                               *)
(***************************************************************************)
\* The datagram is one of the three kinds RoutePacket turns away
Rejectable(data) ==
  \/ data.size < MinPacketSize
  \/ ~IsQUICLike(data.flags)
  \/ FlagsType(data.flags) # PacketType_HANDSHAKE /\ sessions[data.cid] = 0

RejectStep ==
  \A data \in RejectDatagrams, remoteAddr \in Addrs :
    (Rejectable(data) /\ RoutePacket(data, remoteAddr)) =>
      /\ ret'.op = "RoutePacket"
      /\ ret'.err # "nil"
      /\ out' = <<>>
      /\ UNCHANGED <<hub, sessions, sess, view, rx>>

\* C19: for a datagram shorter than the minimum packet size, one whose first
\* byte is not QUIC-like, or one that is not a Handshake and carries a
\* connection ID absent from the table, RoutePacket returns an error, the
\* table, every session and the Hub's counters are unchanged and nothing is
\* sent.
C19_RejectNoEffect == [][RejectStep]_vars

\* A datagram was turned away for its connection ID while a session that was
\* last active at an earlier time is in the table
C19_Witness ==
  /\ ret.op = "RoutePacket"
  /\ ret.err = "unknown connection ID"
  /\ \E connID \in CIDs :
       /\ sessions[connID] # 0
       /\ sess[sessions[connID]].LastActiveAt < now


(***************************************************************************)
(* The codec.                                                              *)
(***************************************************************************)
\* The fields a decoded Packet shares with the one that was encoded
SameFields(a, b) ==
  /\ a.Type = b.Type
  /\ a.ConnectionID = b.ConnectionID
  /\ a.PacketNumber = b.PacketNumber
  /\ a.Payload = b.Payload

Encoded ==
  pure.op \in {"Marshal", "Unmarshal"} =>
    /\ pure.err = "nil"
    /\ IsQUICLike(pure.data[1])
    /\ Len(pure.data)
         = Marshal([pure.p EXCEPT !.Payload = Buf(0, Len(pure.p.Payload))],
                   cfg, Len(pure.padding)).size

Decoded ==
  pure.op = "Unmarshal" =>
    /\ pure.res.err = "nil"
    /\ SameFields(pure.res.p, pure.p)
    /\ pure.res = Unmarshal(MarshalBytes(pure.p, cfg, <<>>).data,
                            cfg.ConnectionIdLength)

\* C20: for every valid Config, packet kind, connection ID of the configured
\* length, packet number and payload up to max_payload, Marshal succeeds, its
\* first byte is QUIC-like, and Unmarshal of the result succeeds and gives
\* the same kind, connection ID, packet number and payload, whatever padding
\* was appended.
C20_RoundTrip == Encoded /\ Decoded

\* A packet with the largest payload and packet number, under a 4-byte
\* connection ID, was decoded from a datagram that ends in padding
C20_Witness ==
  /\ pure.op = "Unmarshal"
  /\ Len(pure.padding) > 0
  /\ cfg.ConnectionIdLength = 4
  /\ pure.p.PacketNumber = U32Max
  /\ Len(pure.p.Payload) = GetMaxPayloadSize(cfg)


\* The datagram is one of those the decoder must turn away
Malformed(data, connIDLen) ==
  LET header == FlagsSize + VersionSize + connIDLen + PacketNumberSize
                  + PayloadLengthSize
  IN \/ Len(data) < header
     \/ /\ Len(data) >= header
        /\ \/ (data[1] \div FlagFormBit) % 2 = 0
           \/ (data[1] \div FlagFixedBit) % 2 = 0
           \/ SubSeq(data, 2, 5) # <<0, 0, 0, 1>>
           \/ data[header - 1] * 256 + data[header] > Len(data) - header

DecodeRejects ==
  (pure.op = "Unmarshal" /\ Malformed(pure.data, cfg.ConnectionIdLength)) =>
    /\ pure.res.err # "nil"
    /\ pure.res.p = NoPacketBytes

EncodeRejects ==
  (pure.op = "Marshal" /\ Len(pure.p.ConnectionID) # cfg.ConnectionIdLength) =>
    /\ pure.err # "nil"
    /\ pure.data = <<>>

\* C21: Unmarshal returns an error and no Packet for every input shorter than
\* 1+4+cidLen+4+2 bytes, with the form bit or the fixed bit clear, with a
\* version other than 0x00000001, or with a declared payload length beyond
\* the bytes that remain; Marshal returns an error whenever the Packet's
\* connection ID is not of the configured length.
C21_DecodeRejects == DecodeRejects /\ EncodeRejects

\* A datagram long enough, with the form bit set and the fixed bit clear,
\* was turned away
C21_Witness ==
  /\ pure.op = "Unmarshal"
  /\ Len(pure.data) > 1
  /\ (pure.data[1] \div FlagFixedBit) % 2 = 0
  /\ (pure.data[1] \div FlagFormBit) % 2 = 1
  /\ pure.res.err = "decode flags"


(***************************************************************************)
(* The obfuscators.                                                        *)
(***************************************************************************)
\* The datagram with its version field set to 0x00000001
VersionNormalized(data) ==
  SubSeq(data, 1, FlagsSize) \o PutUint32(U32(FakeQUICVersion))
    \o From(data, FlagsSize + VersionSize)

Wrapped == pure.op \in {"Wrap", "Unwrap"} => pure.wrap.err = "nil"

Unwrapped ==
  pure.op = "Unwrap" =>
    /\ pure.unwrap.err = "nil"
    /\ pure.mode = ObfuscationMode_QUIC_MIMIC =>
         /\ pure.unwrap.data = VersionNormalized(pure.data)
         /\ LET inner == Unmarshal(pure.unwrap.data, cfg.ConnectionIdLength)
            IN inner.err = "nil" /\ SameFields(inner.p, pure.p)
    /\ pure.mode \in {ObfuscationMode_WEBRTC_MIMIC, ObfuscationMode_RAW} =>
         pure.unwrap.data = pure.data

\* C22: for every datagram Marshal produces under a connection ID length of
\* 4 to 20, Wrap succeeds and Unwrap of its result succeeds; under quic-mimic
\* the result is the datagram with the version field set to 0x00000001, so
\* that it decodes to the same kind, connection ID, packet number and
\* payload; under webrtc-mimic and raw it is the datagram byte for byte.
C22_ObfuscatorRoundTrip == Wrapped /\ Unwrapped

\* Under a 4-byte connection ID a datagram of 77 bytes went through
\* quic-mimic with the QUIC v2 version on the wire: its fixed 8-byte DCID
\* took the connection ID and the packet number, and the 64 bytes that
\* remained were announced by a 2-byte varint
C22_Witness ==
  /\ pure.op = "Unwrap"
  /\ pure.mode = ObfuscationMode_QUIC_MIMIC
  /\ cfg.ConnectionIdLength = 4
  /\ Len(pure.data) = 77
  /\ SubSeq(pure.wrap.data, 2, 5) # <<0, 0, 0, 1>>
  /\ SubSeq(pure.wrap.data, 25, 26) = <<64, 64>>
  /\ pure.unwrap.data = pure.data

(***************************************************************************)
(* Session keys.                                                           *)
(***************************************************************************)
RoleSwap ==
  (pure.op = "DeriveSessionKeys" /\ DOMAIN pure.val = {"client", "server"}) =>
    /\ pure.val["client"].SendKey = pure.val["server"].RecvKey
    /\ pure.val["client"].RecvKey = pure.val["server"].SendKey
    /\ pure.val["client"].SendKey # pure.val["client"].RecvKey

\* The client completed the handshake of session sid under the pre-shared
\* key psk: the keys it derived from the ServerHello
HandshakeSwap ==
  \A sid \in SIDs :
    sess[sid].alloc =>
      LET clientKeys == ClientKeys(sess[sid].LocalKeyPair.PublicKey, cfg.Key)
      IN /\ clientKeys.SendKey = sess[sid].Keys.RecvKey
         /\ clientKeys.RecvKey = sess[sid].Keys.SendKey

\* C23: for every shared secret and pre-shared key, the keys derived with
\* the client role and with the server role satisfy client.send =
\* server.recv, client.recv = server.send and client.send # client.recv;
\* after a handshake with equal pre-shared keys the client's send key is the
\* server session's receive key and the client's receive key is the server
\* session's send key.
C23_KeyRoleSwap == RoleSwap /\ HandshakeSwap

\* Both roles derived their keys from one secret under the empty pre-shared
\* key, and a session stands whose keys the server derived in a handshake
C23_Witness ==
  /\ pure.op = "DeriveSessionKeys"
  /\ DOMAIN pure.val = {"client", "server"}
  /\ pure.arg.psk = 0
  /\ \E sid \in SIDs :
       /\ sess[sid].alloc
       /\ sess[sid].State = SessionState_ACTIVE
       /\ sess[sid].Keys.RecvKey.ikm = {1, 10 + sid}

(***************************************************************************)
(* The classifier.                                                         *)
(***************************************************************************)
\* The level the bands give a packet of n bytes under a mode
Band(mode, n) ==
  CASE mode = PriorityMode_GAMING ->
         IF n <= 256 THEN PriorityHigh
         ELSE IF n <= 1024 THEN PriorityMedium
         ELSE PriorityLow
    [] mode = PriorityMode_STREAMING ->
         IF n <= 1024 THEN PriorityHigh ELSE PriorityMedium
    [] mode = PriorityMode_NONE -> PriorityMedium

Within(x, lo, hi) == ~U32Less(x, U32(lo)) /\ ~U32Less(U32(hi), x)

\* The field of the Config after Validate, given the one before: kept when
\* in range, the default otherwise
Clamped(after, before, inRange, default) ==
  after = IF inRange THEN before ELSE U32(default)

Clamps ==
  pure.op = "Validate" =>
    LET c == pure.arg
        b == pure.val.prev
        ordered == ~U32Less(b.PaddingMaxSize, b.PaddingMinSize)
    IN /\ pure.val.err = "nil"
       /\ Clamped(c.MTU, b.MTU, Within(b.MTU, 576, 1500), 1400)
       /\ Clamped(c.MaxStreams, b.MaxStreams, Within(b.MaxStreams, 1, 256), 16)
       /\ Clamped(c.ConnectionIdLength, b.ConnectionIdLength,
                  Within(b.ConnectionIdLength, 4, 20), 8)
       /\ Clamped(c.HandshakeTimeout, b.HandshakeTimeout,
                  b.HandshakeTimeout # U32(0), 5)
       /\ Clamped(c.PaddingMinSize, b.PaddingMinSize, ordered, 40)
       /\ Clamped(c.PaddingMaxSize, b.PaddingMaxSize, ordered, 200)
       /\ c.EnablePadding = b.EnablePadding
       /\ c.KeepAliveInterval = b.KeepAliveInterval

Idempotent ==
  (pure.op = "Validate" /\ pure.val.n = 2) => pure.arg = pure.val.prev

PayloadFits ==
  pure.op = "GetMaxPayloadSize" =>
    /\ U32Less(U32(0), pure.val.maxPayload)
    /\ U32Less(pure.val.maxPayload, pure.arg.MTU)

\* C25: Validate replaces an mtu outside 576..1500 by 1400, a max_streams
\* outside 1..256 by 16, a connection_id_length outside 4..20 by 8 and a
\* handshake_timeout of 0 by 5, sets padding_min and padding_max to 40 and
\* 200 when min > max, leaves every value in range as it was, returns no
\* error, and changes nothing when called again; after Validate the largest
\* payload is above 0 and below the mtu.
C25_ConfigValidation == Clamps /\ Idempotent /\ PayloadFits

\* A Config with mtu 0, a connection ID length of 65544 and padding_min
\* above padding_max was validated and asked for its largest payload
C25_Witness ==
  /\ pure.op = "GetMaxPayloadSize"
  /\ pure.val.prev.MTU = U32(0)
  /\ pure.val.prev.ConnectionIdLength = [hi |-> 1, lo |-> 8]
  /\ pure.val.prev.PaddingMinSize = U32Max
  /\ pure.val.prev.MaxStreams = U32(256)
  /\ pure.arg.EnablePadding
  /\ pure.arg.MTU = U32(1400)
  /\ pure.arg.ConnectionIdLength = U32(8)
  /\ pure.arg.PaddingMinSize = U32(40)
  /\ pure.arg.PaddingMaxSize = U32(200)
  /\ pure.arg.MaxStreams = U32(256)
  /\ pure.val.maxPayload = U32(1400 - 19 - 16 - 2)

(***************************************************************************)
(* The QUIC variable-length integer.                                       *)
(***************************************************************************)
\* v < 2^k for a uint64 whose first bytes are zero and whose next byte is
\* below 64
LeadingZeros(v, zeros) ==
  /\ \A i \in 1 .. zeros : v[i] = 0
  /\ v[zeros + 1] < 64

\* The encoded length of a value below 2^62
VarintLen(v) ==
  IF LeadingZeros(v, 7) THEN 1
  ELSE IF LeadingZeros(v, 6) THEN 2
  ELSE IF LeadingZeros(v, 4) THEN 4
  ELSE 8

\* The length a buffer's first byte announces
Announced(b) ==
  CASE b \div 64 = 0 -> 1 [] b \div 64 = 1 -> 2 [] b \div 64 = 2 -> 4
    [] OTHER -> 8

VarintEncoded ==
  (pure.op = "encodeQUICVarint" /\ LeadingZeros(pure.arg, 0)) =>
    Len(pure.val.encoded) = VarintLen(pure.arg)

VarintDecoded ==
  (/\ pure.op = "decodeQUICVarint"
   /\ pure.val.from = "encodeQUICVarint"
   /\ LeadingZeros(pure.arg, 0)) =>
    /\ pure.val.res.err = "nil"
    /\ pure.val.res.value = pure.arg
    /\ pure.val.res.n = VarintLen(pure.arg)
    /\ pure.val.res.n = Len(pure.val.encoded)

VarintTruncated ==
  (/\ pure.op = "decodeQUICVarint"
   /\ \/ Len(pure.data) = 0
      \/ Len(pure.data) > 0 /\ Len(pure.data) < Announced(pure.data[1])) =>
    pure.val.res.err # "nil"

\* C26: for every value v below 2^62, decodeQUICVarint of
\* encodeQUICVarint(v) returns v and the number of bytes of the encoding,
\* which is 1 for v <= 63, 2 for v <= 16383, 4 for v <= 1073741823 and 8
\* otherwise; decodeQUICVarint of a buffer shorter than the length its first
\* two bits announce returns an error.
C26_VarintRoundTrip == VarintEncoded /\ VarintDecoded /\ VarintTruncated

\* 2^62 - 1 was encoded in 8 bytes that start with 0xFF and decoded from a
\* buffer in which other bytes follow
C26_Witness ==
  /\ pure.op = "decodeQUICVarint"
  /\ pure.val.from = "encodeQUICVarint"
  /\ pure.arg = <<63, 255, 255, 255, 255, 255, 255, 255>>
  /\ Len(pure.data) = 10
  /\ pure.data[1] = 255
  /\ pure.val.res.n = 8
  /\ pure.val.res.value = pure.arg

(***************************************************************************)
(* The receive loop and Session.Close.                                     *)
(***************************************************************************)
\* C27: the receive loop never sends a record on an inbound queue that
\* Session.Close has closed: PushInbound does not pass its closed check and
\* then reach its send after the view's Close, the reaper, a Control-Close or
\* Hub Stop closed the queue.
C27_NoSendOnClosed == rx.pc # "panic"

(***************************************************************************)
(* Datagrams that fail validation.                                         *)
(***************************************************************************)
\* C28: a Data datagram that carries the connection ID of a session in the
\* table and fails authentication leaves the session's remote address and
\* last-active time as they were.
C28_OnlyValidRefresh ==
  [][\A data \in ForgedData(1), remoteAddr \in Addrs :
       LET sid == sessions[data.cid]
       IN  (/\ sid # 0
            /\ FlagsType(data.flags) = PacketType_DATA
            /\ ~Authentic(data, sid)
            /\ RoutePacket(data, remoteAddr))
             => /\ sess'[sid].RemoteAddr = sess[sid].RemoteAddr
                /\ sess'[sid].LastActiveAt = sess[sid].LastActiveAt]_vars

(***************************************************************************)
(* A view and the session under its connection ID.                         *)
(***************************************************************************)
\* C29: when the session of a view has left the table and a later handshake
\* has put a new session under the same connection ID, Close on the old view
\* leaves the new session in the table, Active, its inbound queue open, and
\* the count of active sessions as it was.
C29_ViewClosesOwnSession ==
  [][\A sid \in SIDs :
       LET other == sessions[sess[sid].ID]
       IN  (/\ view[sid].made
            /\ other \notin {0, sid}
            /\ ViewCloseRemove(sid))
             => /\ sessions'[sess[sid].ID] = other
                /\ sess'[other].State = sess[other].State
                /\ sess'[other].chanClosed = sess[other].chanClosed
                /\ hub'.activeSessions = hub.activeSessions]_vars

(***************************************************************************)
(* The reaper beside the receive loop.                                     *)
(***************************************************************************)
\* C30: a session whose last-active time was refreshed after the reaper's
\* scan selected it, so that it is no longer idle beyond the timeout when the
\* removal step runs, is neither removed from the table nor closed by that
\* step.
C30_ReapOnlyIdle ==
  [][\A key \in CIDs :
       (/\ sessions[key] # 0
        /\ IdleFor(key) <= IdleTimeout
        /\ ReaperRemove(key))
         => /\ sessions'[key] = sessions[key]
            /\ sess'[sessions[key]].closed = sess[sessions[key]].closed]_vars
\* The packets in the three channels
InQueues(q) ==
  Len(q.queues[PriorityHigh]) + Len(q.queues[PriorityMedium])
    + Len(q.queues[PriorityLow])

\* The packet a caller of Dequeue holds inside checkStarvation
Held(d) == IF d.pc = "checkStarvation" THEN 1 ELSE 0

\* C31: packet conservation in the scheduler.  Under every interleaving of
\* enqueues with a Dequeue, a packet that leaves the channels and the hands
\* of the consumer has either been returned by that Dequeue or been counted
\* by an increment of the drop counter: no step loses a packet uncounted.
C31_Conservation ==
  [][(InQueues(pq) + Held(dq)) - (InQueues(pq') + Held(dq'))
       <= (pq'.dropped - pq.dropped)
            + (IF pqRet'.op = "Dequeue" /\ pqRet'.ok /\ pq' # pq THEN 1 ELSE 0)]_vars

\* The call returned a packet no younger than those left in its level
FifoStep ==
  (DequeueCall /\ pqRet'.pkt # NoPacket) =>
    \A p \in Queued(pq', pqRet'.pkt.Priority) :
      pqRet'.pkt.EnqueuedAt <= p.EnqueuedAt

\* C32: FIFO within a level.  With one consumer and every call run to
\* completion, Dequeue returns the packets of one level in the order of their
\* enqueue: a returned packet was enqueued no later than any packet of its
\* level that is still queued.
C32_FifoWithinLevel == [][FifoStep]_vars

\* The packet numbers of the handshake and of the server's first Data
HandshakeNumbers ==
  /\ client.helloPn \in {NoPn, U32(0)}
  /\ client.serverHelloPn \in {NoPn, U32(1)}
  /\ \A sid \in SIDs : firstData[sid] \in {NoPn, U32(2)}

C34_KeepAliveCadence ==
  [][client'.keepAlives > client.keepAlives =>
       /\ cfg.KeepAliveInterval > 0
       /\ now' - client.lastSend >= cfg.KeepAliveInterval]_vars

\* The errors handleNewHandshake returns
NewHandshakeErrors ==
  {"unmarshal handshake", "unmarshal handshake payload",
   "compute shared secret", "send server hello"}

\* C35: a failed new-session flow leaves no session behind.  Whenever the
\* handling of a Handshake on an unknown connection ID returns an error, the
\* table, the active and the cumulative counter are as before the call and
\* the new-session callback has created no view.
C35_FailedHandshakeLeavesNothing ==
  [][(ret'.op = "RoutePacket" /\ ret'.err \in NewHandshakeErrors) =>
       /\ sessions' = sessions
       /\ hub'.activeSessions = hub.activeSessions
       /\ hub'.totalSessions = hub.totalSessions
       /\ view' = view]_vars

\* The entries of the Hub's table
TableEntries == {key \in CIDs : sessions[key] # 0}

\* C36: the active-session counter equals the number of entries in the
\* Hub's table whenever no thread holds the write lock, and the cumulative
\* counter equals the number of sessions ever inserted.
C36_ActiveCounter ==
  /\ hub.activeSessions = Cardinality(TableEntries)
  /\ hub.totalSessions = NumAllocated

\* The goroutine waits for a lock
AtLock(t) == lk.pc[t] \in LockPcs

\* The goroutine waits for the view's mutex, which a Read holds while it
\* waits on the open, empty inbound channel
BehindRead(t) ==
  /\ lk.pc[t] = "c.Lock"
  /\ lk.cmu # ""
  /\ lk.pc[lk.cmu] = "recv"
  /\ lk.inbound = 0
  /\ ~lk.chanClosed

\* A Read waiting on the inbound channel returns once a record is there or
\* the channel is closed
ReadEnds ==
  \A t \in {"read1", "read2"} :
    (lk.pc[t] = "recv" /\ (lk.inbound > 0 \/ lk.chanClosed))
      ~> (lk.pc[t] # "recv")

HandshakesOnWire ==
  {client.wire[i] : i \in 1..Len(client.wire)}
    \cup {d \in {out[i].d : i \in 1..Len(out)} :
            FlagsType(d.flags) = PacketType_HANDSHAKE}

\* C38: every encoded Handshake packet carries a non-empty padding region and
\* its 16-bit length, so its datagram is longer than the header plus the
\* 72-byte handshake payload, whatever the Config (enable_padding = false
\* included).
C38_HandshakePadded ==
  \A d \in HandshakesOnWire :
    /\ FlagsPadding(d.flags)
    /\ d.size > FlagsSize + VersionSize + cfg.ConnectionIdLength
                  + PacketNumberSize + PayloadLengthSize + HandshakePayloadSize
                  + PaddingLengthSize

\* C39: every datagram handed to the UDP socket is what the configured
\* obfuscator's Wrap gives for the encoded packet, and what is classified,
\* looked up and decoded on receipt is the obfuscator's Unwrap of the
\* datagram that arrived.
C39_ObfuscationOnWire ==
  /\ pure.op \in {"WriteToUDP", "RoutePacket"} =>
       \E seed \in CodecSeeds, version \in quicVersions :
         LET w == Wrap(pure.mode, pure.data, PatternBytes(seed, 8), version)
         IN  w.err = "nil" /\ pure.val = w.data
  /\ pure.op = "RoutePacket" =>
       LET u == Unwrap(pure.mode, pure.val)
       IN  u.err = "nil" /\ pure.arg = u.data

\* The sessions a scan at this moment is to select under a timeout
IdleBeyond(timeout) ==
  {key \in CIDs : sessions[key] # 0 /\ IdleFor(key) > timeout}

====
